---- MODULE Spec2Model ----
(***************************************************************************)
(* Subscription billing reconciliation of vibe-coding-supabase:            *)
(*   - the billing webhook handler      (src/unnamed/part_004, POST)       *)
(*   - the subscription status resolver (src/unnamed/part_008, GET)        *)
(*   - the cancellation endpoint (src/src/app/api/payments/cancel/route.ts)*)
(*   - the first-charge endpoint        (src/unnamed/part_009, POST)       *)
(*   - the client hook usePaymentStatus and the cached client accessors    *)
(*     (src/unnamed/part_000)                                              *)
(* together with the payment ledger (table "payment") and the payment      *)
(* gateway they talk to.                                                   *)
(*                                                                         *)
(* The repository holds earlier route modules of the same endpoints as     *)
(* well, and they are modelled beside the ones above:                      *)
(*   - webhook: src/src/app/api/portone/route.ts, src/unnamed/part_005     *)
(*     and the POST that src/src/app/mypages/page.tsx exports (396-454)    *)
(*   - status:  src/unnamed/part_006 and src/unnamed/part_007              *)
(*   - cancellation: src/unnamed/part_009, lines 39-110                    *)
(*   - first charge: src/unnamed/part_010                                  *)
(* A request in flight carries the module that serves it (`file`).         *)
(*                                                                         *)
(* Instants.  A JavaScript Date is a count of milliseconds since the       *)
(* epoch.  An instant is kept here as [day, ms]: the number of the UTC     *)
(* calendar day and the millisecond within that day (0 .. MsPerDay-1), so  *)
(* the count of milliseconds is day * MsPerDay + ms.  The calendar         *)
(* (year, month, date) of a Date is its day number.                        *)
(***************************************************************************)
EXTENDS Integers, Sequences, FiniteSets, TLC

VARIABLES
    env,          \* process.env: which configuration values are set
    now,          \* the wall clock (Date.now() / new Date())
    ledger,       \* table "payment": the rows in insertion order
    payments,     \* gateway: the payments it holds (GET /payments/{id})
    schedules,    \* gateway: the registered payment schedules
    uuidCount,    \* number of randomUUID() values drawn so far
    resp,         \* the last request handled and the response it got
    hook,         \* the state of usePaymentStatus in the page of one browser
    clients,      \* cachedClient and cachedServiceClient of src/lib/supabase
    requests      \* the requests the server is handling, each at an await

vars == <<env, now, ledger, payments, schedules, uuidCount, resp, hook, clients,
          requests>>

----------------------------------------------------------------------------
(* Bounds of the model *)

\* a process is followed until it has created MaxClients clients of one kind
MaxClients == 2

\* fetchPaymentStatus is called at most MaxCalls times: on mount, and again
\* through refetch
MaxCalls == 2

\* the clock of a renewal chain stops ChainHorizon days after StartDay
ChainHorizon == 70

\* the ledger holds at most MaxRows rows; a webhook that would insert into a
\* full ledger is not delivered
MaxRows == 3

\* the clock stops Horizon days after the day it starts on
Horizon == 32

\* the server handles at most MaxRunning requests at a time; a request that
\* would have to wait at an await while MaxRunning others do is not taken
MaxRunning == 2

----------------------------------------------------------------------------
(* Time *)

MsPerHour   == 60 * 60 * 1000
MsPerMinute == 60 * 1000
MsPerSecond == MsPerMinute \div 60
MsPerDay    == 24 * MsPerHour

\* setKSTTime: "const utcHours = hours - 9"
KSTOffsetHours == 9
\* POST (Paid branch): "addDays(startAt, 30)"
PeriodDays == 30

Instant(d, m) == [day |-> d, ms |-> m]

\* a.getTime() < b.getTime(), a.getTime() <= b.getTime()
TLt(a, b)  == a.day < b.day \/ (a.day = b.day /\ a.ms < b.ms)
TLeq(a, b) == a.day < b.day \/ (a.day = b.day /\ a.ms <= b.ms)

\* new Date(t.getTime() + n) for a whole number n of milliseconds
PlusMs(t, n) ==
    LET total == t.ms + n
    IN  Instant(t.day + (total \div MsPerDay), total % MsPerDay)

\* addDays: result.setDate(result.getDate() + days).  setDate works on the
\* local calendar of the server; in a zone with a fixed UTC offset (UTC, KST)
\* it moves the instant by days * 24 h and keeps the time of day.
addDays(date, days) == Instant(date.day + days, date.ms)

\* setKSTTime: takes the UTC year/month/date of `date` and returns
\* Date.UTC(year, month, day, hours - 9, minutes, seconds); Date.UTC carries
\* an hour outside 0..23 into the neighbouring day.
setKSTTime(date, hours, minutes, seconds) ==
    PlusMs(Instant(date.day, 0),
           (hours - KSTOffsetHours) * MsPerHour
             + minutes * MsPerMinute + seconds * MsPerSecond)

\* buildEndGraceAt taking the time of day on the day of end_at itself
buildEndGraceAt_SameDay(endAt) ==
    setKSTTime(endAt, 23, 59, 59)

buildEndGraceAt(endAt) ==
    LET nextDay == addDays(endAt, 1)
    IN  setKSTTime(nextDay, 23, 59, 59)

\* Math.random() is a double in [0, 1), and so is the product
\* Math.random() * (endTime - startTime) a double in [0, 1 h).  A draw is
\* given by that product: its whole milliseconds `ms` (0 .. MsPerHour - 1)
\* and the fraction of a millisecond that follows, counted in `half`
\* spacings of the doubles around startTime (0 .. 2 * DoublesPerMs - 1).
Draw(m, h) == [ms |-> m, half |-> h]

\* "startTime.getTime() + Math.random() * (...)" is a sum of doubles.  The
\* instants of the model (the year 2024 and after, 2^40 <= getTime() < 2^41)
\* have 2^12 doubles to the millisecond.
DoublesPerMs == 4096

\* buildNextScheduleAt taking the window on the day of end_at itself
buildNextScheduleAt_SameDay(endAt, x) ==
    LET startTime  == setKSTTime(endAt, 10, 0, 0)
        doubles    == (x.half + 1) \div 2
    IN  PlusMs(startTime, x.ms + (doubles \div DoublesPerMs))

\* The sum randomTime is rounded to the nearest double: `doubles` is its
\* fraction of a millisecond, counted in doubles.  new Date(randomTime) drops
\* what is left of the fraction (TimeClip).  A draw in the last half spacing
\* before a whole millisecond is rounded up to it, so the greatest draws
\* give endTime itself.
buildNextScheduleAt(endAt, x) ==
    LET nextDay    == addDays(endAt, 1)
        startTime  == setKSTTime(nextDay, 10, 0, 0)
        endTime    == setKSTTime(nextDay, 11, 0, 0)
        doubles    == (x.half + 1) \div 2
    IN  PlusMs(startTime, x.ms + (doubles \div DoublesPerMs))

\* the draws of Math.random() the model takes: the least, one whose fraction
\* TimeClip drops, the greatest that stays below endTime, and the greatest
LeastDraw    == Draw(0, 0)
GreatestDraw == Draw(MsPerHour - 1, 2 * DoublesPerMs - 1)
RandomDraws ==
    { LeastDraw, Draw(0, 1),
      Draw(MsPerHour - 1, 2 * DoublesPerMs - 2), GreatestDraw }

\* the calendar day of an instant in local civil time (UTC+9)
KSTDay(t) == PlusMs(t, KSTOffsetHours * MsPerHour).day
\* the instant h:m:s local civil time (UTC+9) of local calendar day d
KSTInstant(d, h, m, s) ==
    PlusMs(Instant(d, 0),
           (h * MsPerHour + m * MsPerMinute + s * MsPerSecond)
             - KSTOffsetHours * MsPerHour)

----------------------------------------------------------------------------
(* JavaScript values.  A value whose type the code tests carries its type. *)

Undef     == [type |-> "undefined"]
JSNull    == [type |-> "null"]
Str(s)    == [s |-> s, type |-> "string"]
Num(n)    == [n |-> n, type |-> "number"]
NaN       == [type |-> "number", nan |-> TRUE]
IsNaN(v)  == v.type = "number" /\ "nan" \in DOMAIN v

\* Number(s) for the strings the gateway may send as amount.total; every
\* other string is not numeric.  Number("") is 0.
Number(s) ==
    IF s = "5500" THEN Num(5500)
    ELSE IF s = "" THEN Num(0)
    ELSE NaN

\* parseAmount: number | null
parseAmount(amount) ==
    IF amount.type = "number" THEN amount
    ELSE IF amount.type = "object" THEN
        LET total == amount.total
        IN  IF total.type = "number" THEN total
            ELSE IF total.type = "string" THEN
                LET parsed == Number(total.s)
                IN  IF IsNaN(parsed) THEN JSNull ELSE parsed
            ELSE JSNull
    ELSE JSNull

----------------------------------------------------------------------------
(* The world around the handlers *)

Users == {"u1", "u2"}

\* randomUUID(): the n-th value drawn
UUIDs == <<"s1", "s2", "s3", "s4", "s5", "s6">>
randomUUID(n) == UUIDs[n]

\* Charges captured at the gateway outside the webhook (first charges made
\* with a billing key).  `key` is the id the gateway keeps the payment under;
\* the other fields are those of the answer of GET /payments/{key}, which
\* carries the payment's `id` and no `paymentId`.  An absent string field
\* (billingKey, orderName, customer.id) is "".
FirstCharges ==
    { [amount |-> Num(9900), key |-> "p1", paymentId |-> Undef,
       id |-> Str("p1"), billingKey |-> "bk1",
       orderName |-> "sub", customerId |-> "c1", customData |-> Str("u1")],
      [amount |-> [total |-> Str("5500"), type |-> "object"],
       key |-> "p2", paymentId |-> Undef, id |-> Str("p2"),
       billingKey |-> "bk2", orderName |-> "sub", customerId |-> "c2",
       customData |-> [type |-> "object", user_id |-> Str("u2")]] }

\* process.env, as far as the server reads it.  apiSecret, serviceRoleKey,
\* publicUrl and anonKey say whether PORTONE_API_SECRET,
\* SUPABASE_SERVICE_ROLE_KEY, NEXT_PUBLIC_SUPABASE_URL and
\* NEXT_PUBLIC_SUPABASE_ANON_KEY hold a non-empty string.  supabaseUrl is
\* SUPABASE_URL: "unset", "" (set to the empty string) or "set".  tz is the
\* zone of the server (TZ): the hours its local time is ahead of UTC.
\* Every value is set, and the server runs on UTC:
Configured ==
    [apiSecret |-> TRUE, supabaseUrl |-> "set", publicUrl |-> TRUE,
     serviceRoleKey |-> TRUE, anonKey |-> TRUE, tz |-> 0]

\* the test of getUserIdFromSession and of getSupabaseClient:
\* !supabaseUrl || !supabaseAnonKey over the two public values
AnonConfigured(e) == e.publicUrl /\ e.anonKey

\* the test of getSupabaseServiceRoleClient: the URL is
\* process.env.SUPABASE_URL ?? process.env.NEXT_PUBLIC_SUPABASE_URL, so the
\* public URL is taken when SUPABASE_URL is not set, and not when it is ""
ServiceRoleConfigured(e) ==
    LET supabaseUrl == IF e.supabaseUrl = "unset" THEN e.publicUrl
                       ELSE e.supabaseUrl = "set"
    IN  supabaseUrl /\ e.serviceRoleKey

\* the configurations of the server: complete, without the secret of the
\* gateway, without the service-role key, without the anon key, without
\* SUPABASE_URL (the public URL serves), and with an empty SUPABASE_URL
EnvConfigs ==
    { Configured,
      [Configured EXCEPT !.apiSecret = FALSE],
      [Configured EXCEPT !.serviceRoleKey = FALSE],
      [Configured EXCEPT !.anonKey = FALSE],
      [Configured EXCEPT !.supabaseUrl = "unset"],
      [Configured EXCEPT !.supabaseUrl = ""] }

\* the instants at which the model's clock starts: a day at 00:30:00.000
\* (09:30 local time of the same local day) and at 23:59:59.999 UTC
\* (08:59:59.999 local time of the next local day)
StartDay == 20000
StartInstants ==
    { Instant(StartDay, 30 * MsPerMinute),
      Instant(StartDay, MsPerDay - 1) }

\* the module state of src/lib/supabase as loaded: cachedClient and
\* cachedServiceClient are null (NoClient).  A client made by createClient is
\* known by the number of clients of its kind the process had made with it:
\* the first is 1.
NoClient == 0
NoClients ==
    [cachedClient |-> NoClient, cachedServiceClient |-> NoClient,
     anonMade |-> 0, serviceMade |-> 0]

\* what a call of an accessor gives: the module state after it, the client
\* returned (NoClient if it threw), and whether it read process.env
Got(c, value, threw, readEnv) ==
    [clients |-> c, value |-> value, threw |-> threw, readEnv |-> readEnv]

\* getSupabaseClient() with module state c under process.env e
getSupabaseClient(c, e) ==
    IF c.cachedClient # NoClient THEN Got(c, c.cachedClient, FALSE, FALSE)
    ELSE IF ~AnonConfigured(e) THEN Got(c, NoClient, TRUE, TRUE)
    ELSE LET n == c.anonMade + 1
         IN  Got([c EXCEPT !.cachedClient = n, !.anonMade = n], n, FALSE, TRUE)

\* getSupabaseServiceRoleClient making a client at every call
getSupabaseServiceRoleClient_Uncached(c, e) ==
    IF ~ServiceRoleConfigured(e) THEN Got(c, NoClient, TRUE, TRUE)
    ELSE LET n == c.serviceMade + 1
         IN  Got([c EXCEPT !.cachedServiceClient = n, !.serviceMade = n],
                 n, FALSE, TRUE)

\* getSupabaseServiceRoleClient() with module state c under process.env e
getSupabaseServiceRoleClient(c, e) ==
    IF c.cachedServiceClient # NoClient
    THEN Got(c, c.cachedServiceClient, FALSE, FALSE)
    ELSE IF ~ServiceRoleConfigured(e) THEN Got(c, NoClient, TRUE, TRUE)
    ELSE LET n == c.serviceMade + 1
         IN  Got([c EXCEPT !.cachedServiceClient = n, !.serviceMade = n],
                 n, FALSE, TRUE)

\* usePaymentStatus as mounted: the six useState initial values, and no call
\* of fetchPaymentStatus started
usePaymentStatus ==
    [isSubscribed |-> FALSE, transactionKey |-> Undef,
     statusMessage |-> "Loading", isLoading |-> TRUE, error |-> JSNull,
     checklist |-> "empty",
     calls |-> [c \in 1..MaxCalls |-> [pc |-> "idle"]]]

\* the slots of the requests in flight; none is when the server starts
Slots      == 1..MaxRunning
Idle       == [pc |-> "idle", kind |-> "none"]
NoRequests == [r \in Slots |-> Idle]

Init ==
    /\ env \in EnvConfigs
    /\ now \in StartInstants
    /\ ledger = << >>
    /\ payments = FirstCharges
    /\ schedules = {}
    /\ uuidCount = 0
    /\ hook = usePaymentStatus
    /\ clients = NoClients
    /\ resp = [kind |-> "none"]
    /\ requests = NoRequests

\* the server starts at 09:30 local time
InitFrame ==
    /\ env \in EnvConfigs
    /\ now = Instant(StartDay, 30 * MsPerMinute)
    /\ ledger = << >>
    /\ payments = FirstCharges
    /\ schedules = {}
    /\ uuidCount = 0
    /\ hook = usePaymentStatus
    /\ clients = NoClients
    /\ resp = [kind |-> "none"]
    /\ requests = NoRequests

----------------------------------------------------------------------------
(* The ledger: table "payment" *)

\* the column created_at is set by the database when the row is inserted.
\* .order("created_at", {ascending: false}) says nothing of rows with equal
\* created_at: the database gives them in an order of its own.  A tie order
\* is the rank the database gives each place of the table in one answer.
TieOrders == Permutations(1..MaxRows)

\* the tie order that follows the places of the table
InsertionOrder == [i \in 1..MaxRows |-> i]

\* the places `idx` of the table in the order of
\* .order("created_at", {ascending: false}), ties as `tie` ranks them
RECURSIVE QueryOrder(_, _, _)
QueryOrder(table, idx, tie) ==
    IF idx = {} THEN << >>
    ELSE LET i == CHOOSE a \in idx : \A b \in idx :
                      \/ TLt(table[b].created_at, table[a].created_at)
                      \/ (table[b].created_at = table[a].created_at
                            /\ tie[a] <= tie[b])
         IN  <<i>> \o QueryOrder(table, idx \ {i}, tie)

\* the rows at the places `idx` of the table in that order
OrderByCreatedAtDesc(table, idx, tie) ==
    LET order == QueryOrder(table, idx, tie)
    IN  [k \in DOMAIN order |-> table[order[k]]]

\* insertPaymentRecord writing a Cancel over the latest row of its key
insertPaymentRecord_Overwrite(table, params, createdAt, ok) ==
    LET row == [amount           |-> params.amount,
                user_id          |-> params.userId,
                created_at       |-> createdAt,
                transaction_key  |-> params.transactionKey,
                status           |-> params.status,
                start_at         |-> params.startAt,
                end_at           |-> params.endAt,
                end_grace_at     |-> params.endGraceAt,
                next_schedule_at |-> params.nextScheduleAt,
                next_schedule_id |-> params.nextScheduleId]
        same == {i \in DOMAIN table : table[i].transaction_key = params.transactionKey}
    IN  IF ~ok THEN table
        ELSE IF params.status = "Cancel" /\ same # {}
        THEN [table EXCEPT ![CHOOSE i \in same : \A j \in same : j <= i] = row]
        ELSE Append(table, row)

\* insertPaymentRecord: supabase.from("payment").insert({...}).  ok says
\* whether the database answered without error; when it answers with an
\* error no row is written (and the function throws, lines 178-180)
insertPaymentRecord(table, params, createdAt, ok) ==
    IF ~ok THEN table
    ELSE Append(table,
           [amount           |-> params.amount,
            user_id          |-> params.userId,
            created_at       |-> createdAt,
            transaction_key  |-> params.transactionKey,
            status           |-> params.status,
            start_at         |-> params.startAt,
            end_at           |-> params.endAt,
            end_grace_at     |-> params.endGraceAt,
            next_schedule_at |-> params.nextScheduleAt,
            next_schedule_id |-> params.nextScheduleId])

\* fetchLatestPaymentRecord: .eq("transaction_key", key)
\*   .order("created_at", {ascending: false}).limit(1).maybeSingle();
\* ok says whether the database answered the select without error.  The
\* answer is << >> when the function throws: on an error (lines 194-196) and
\* when there is no data (198-200)
fetchLatestPaymentRecord(table, transactionKey, ok, tie) ==
    LET found == OrderByCreatedAtDesc(table,
                    {i \in DOMAIN table : table[i].transaction_key = transactionKey},
                    tie)
    IN  IF ~ok THEN << >>
        ELSE IF found = << >> THEN << >>
        ELSE <<found[1]>>

----------------------------------------------------------------------------
(* The gateway (api.portone.io), seen through the calls the handlers make *)

HasPayment(pid) == \E p \in payments : p.key = pid
PaymentOf(pid)  == CHOOSE p \in payments : p.key = pid

\* the schedule registered under the id of the charge just recorded
ScheduleItem_UnderChargeId(payment, amount, nextScheduleAt, nextScheduleId) ==
    [amount     |-> amount,
     paymentId  |-> payment.key,
     id         |-> <<"schedule", payment.key>>,
     billingKey |-> payment.billingKey,
     orderName  |-> payment.orderName,
     customerId |-> payment.customerId,
     customData |-> payment.customData,
     timeToPay  |-> nextScheduleAt]

\* POST /payments/{nextScheduleId}/schedule: the schedule the gateway keeps.
\* The gateway gives the schedule an id of its own; the payment id it will
\* charge under is nextScheduleId.
ScheduleItem(payment, amount, nextScheduleAt, nextScheduleId) ==
    [amount     |-> amount,
     paymentId  |-> nextScheduleId,
     id         |-> <<"schedule", nextScheduleId>>,
     billingKey |-> payment.billingKey,
     orderName  |-> payment.orderName,
     customerId |-> payment.customerId,
     customData |-> payment.customData,
     timeToPay  |-> nextScheduleAt]

\* GET /payment-schedules with filter {billingKey, from, until}: the
\* registered schedules of the billing key due within the window
fetchScheduledPayments(billingKey, from, until) ==
    {s \in schedules : /\ s.billingKey = billingKey
                       /\ TLeq(from, s.timeToPay)
                       /\ TLeq(s.timeToPay, until)}

\* whether each call of one webhook run was answered without error (2xx by
\* the gateway: fetch, schedule, list, cancel; no error by the database:
\* select, insert), as the run starts: no call has failed
AllOk == [fetch |-> TRUE, schedule |-> TRUE, list |-> TRUE, cancel |-> TRUE,
          select |-> TRUE, insert |-> TRUE]

----------------------------------------------------------------------------
(* Requests in flight.  A handler is an async function: it runs until it   *)
(* awaits a call, and goes on when the call has settled; between the two   *)
(* other requests are served.  A request in flight is kept with the await  *)
(* it is suspended at (pc) and the local variables it goes on with (local).*)

\* suspended at the await of `pc`, which is no call the response lists
Suspend(c, pc, local) == [c EXCEPT !.pc = pc, !.local = local]

\* suspended at the await of `call`
Await(c, call, local) ==
    [c EXCEPT !.pc = call, !.calls = Append(@, call), !.local = local]

\* the handler returns a response with this status code
Ended(c, code) ==
    [c EXCEPT !.pc = "done", !.code = code, !.success = (code = 200),
              !.local = << >>]

\* what a piece of a run leaves behind: the run, suspended or ended, and the
\* ledger, the schedules, the count of UUIDs and the module state of
\* src/lib/supabase
Outcome(run, table, sched, uuids, cl) ==
    [ledger |-> table, schedules |-> sched, uuidCount |-> uuids, clients |-> cl,
     run |-> run]

\* a piece that writes nothing
Same(run) == Outcome(run, ledger, schedules, uuidCount, clients)

\* the lowest slot that is free
FreeSlot == CHOOSE r \in Slots :
               requests[r] = Idle /\ \A q \in Slots : requests[q] = Idle => r <= q
NoneRunning == requests = NoRequests

\* UUIDs the requests in flight may still take
PendingUUIDs ==
    Cardinality({r \in Slots : requests[r].kind = "webhook"
                                  /\ requests[r].pc = "fetchPayment"})

\* the writes of a piece
Writes(out) ==
    /\ ledger' = out.ledger
    /\ schedules' = out.schedules
    /\ uuidCount' = out.uuidCount
    /\ clients' = out.clients

\* the response of a run that has ended, as it goes out
Answer(run) ==
    [run EXCEPT !.at = IF run.kind = "status" THEN run.at ELSE now]

\* a request has arrived and run its first piece `out`: it is suspended in
\* the lowest free slot, or its response goes out
Arrive(out) ==
    /\ Writes(out)
    /\ IF out.run.pc = "done"
       THEN requests' = requests /\ resp' = Answer(out.run)
       ELSE /\ \E r \in Slots : requests[r] = Idle
            /\ requests' = [requests EXCEPT ![FreeSlot] = out.run]
            /\ resp' = [kind |-> "none"]

\* the piece `out` of the run in slot r has run: the run stays suspended, or
\* its response goes out and the slot is free
Settle(r, out) ==
    /\ Writes(out)
    /\ IF out.run.pc = "done"
       THEN requests' = [requests EXCEPT ![r] = Idle] /\ resp' = Answer(out.run)
       ELSE requests' = [requests EXCEPT ![r] = out.run] /\ resp' = [kind |-> "none"]

\* the tie orders the settling of the call the run c awaits may bring: any,
\* when the call is a query of the table ordered by created_at; a call that
\* reads no rows brings none, and the order of the places stands for it
TiesAt(c) ==
    IF c.pc \in {"fetchLatest", "query"} THEN TieOrders ELSE {InsertionOrder}

----------------------------------------------------------------------------
(* The billing webhook handler: POST of src/unnamed/part_004 *)

\* validateRequestBody without the test of status
validateRequestBody_AnyStatus(body) ==
    IF body.type # "object" THEN JSNull
    ELSE IF ~(body.payment_id.type = "string" /\ body.payment_id.s # "") THEN JSNull
    ELSE body

\* validateRequestBody: the payload, or JSNull
validateRequestBody(body) ==
    IF body.type # "object" THEN JSNull
    ELSE IF ~(body.payment_id.type = "string" /\ body.payment_id.s # "") THEN JSNull
    ELSE IF ~(body.status.type = "string" /\ body.status.s \in {"Paid", "Cancelled"})
         THEN JSNull
    ELSE body

\* a request to the webhook as it arrives; json says whether request.json()
\* parses the body.  `calls` lists, in order, the calls to the gateway and to
\* the database the run has made, `gw` which of them were
\* answered without error, `read` the number of rows the ledger held when
\* fetchLatestPaymentRecord read it, `row` the place of the row the run
\* inserted (0: none), `file` the route module that serves the request
WebhookRequest(json, body, after) ==
    [calls |-> << >>, pc |-> "start", kind |-> "webhook", row |-> 0,
     local |-> << >>, code |-> 0, success |-> FALSE, at |-> now, body |-> body,
     json |-> json, after |-> after, file |-> "part_004", gw |-> AllOk, arrived |-> now,
     read |-> 0]

\* the call `k` is answered with an error
Failed(c, k) == [c EXCEPT !.gw[k] = FALSE]

\* POST not looking for the secret of the gateway before it calls it
WebhookReceive_WithoutSecret(c) ==
    IF ~c.json THEN Ended(c, 400)
    ELSE LET payload == validateRequestBody(c.body)
         IN  IF payload = JSNull THEN Ended(c, 400)
             ELSE Await(c, "fetchPayment", [payload |-> payload])

\* lines 336-354: up to await fetchPayment(...)
WebhookReceive(c) ==
    IF ~c.json THEN Ended(c, 400)
    ELSE LET payload == validateRequestBody(c.body)
         IN  IF payload = JSNull THEN Ended(c, 400)
             ELSE IF ~env.apiSecret THEN Ended(c, 500)
             ELSE Await(c, "fetchPayment", [payload |-> payload])

\* customData -> user_id, as the Paid branch extracts it
extractUserId(customData) ==
    IF customData.type = "string" THEN customData
    ELSE IF customData.type = "object" THEN customData.user_id
    ELSE Undef

\* the branch payload.status === "Paid" up to await insertPaymentRecord(...),
\* whose first statement takes the service client; x is the draw of
\* Math.random()
PaidBranch(c, payment, transactionKey, normalizedAmount, x) ==
    LET userId == extractUserId(payment.customData)
    IN  IF ~(userId.type = "string" /\ userId.s # "")
        THEN Same(Ended(c, 500))
        ELSE
        LET nextScheduleId == randomUUID(uuidCount + 1)
            startAt        == now
            endAt          == addDays(startAt, PeriodDays)
            endGraceAt     == buildEndGraceAt(endAt)
            nextScheduleAt == buildNextScheduleAt(endAt, x)
            got            == getSupabaseServiceRoleClient(clients, env)
            params         == [endAt          |-> endAt,
                               amount         |-> normalizedAmount.n,
                               transactionKey |-> transactionKey,
                               userId         |-> userId.s,
                               status         |-> "Paid",
                               startAt        |-> startAt,
                               endGraceAt     |-> endGraceAt,
                               nextScheduleAt |-> nextScheduleAt,
                               nextScheduleId |-> nextScheduleId]
        IN  IF got.threw
            THEN Outcome(Ended(c, 500), ledger, schedules, uuidCount + 1,
                         got.clients)
            ELSE Outcome(Await(c, "insert",
                               [params |-> params, payment |-> payment]),
                         ledger, schedules, uuidCount + 1, got.clients)

\* the branch payload.status === "Cancelled" up to the query of
\* fetchLatestPaymentRecord, whose first statement takes the service client
CancelledBranch(c, payment, transactionKey) ==
    LET got == getSupabaseServiceRoleClient(clients, env)
    IN  IF got.threw
        THEN Outcome(Ended(c, 500), ledger, schedules, uuidCount, got.clients)
        ELSE Outcome(Await(c, "fetchLatest",
                           [transactionKey |-> transactionKey,
                            payment |-> payment]),
                     ledger, schedules, uuidCount, got.clients)

\* lines 354-388 and 411-412: fetchPayment has settled; ok says whether the
\* gateway answered 2xx
AfterFetchPayment(c, ok, x) ==
    LET payload == c.local.payload
    IN  IF ~ok THEN Same(Ended(Failed(c, "fetch"), 500))
        ELSE IF ~HasPayment(payload.payment_id.s) THEN Same(Ended(c, 500))
        ELSE
        LET payment          == PaymentOf(payload.payment_id.s)
            normalizedAmount == parseAmount(payment.amount)
            transactionKey   ==
                IF payment.paymentId # Undef THEN payment.paymentId.s
                ELSE IF payment.id # Undef THEN payment.id.s
                ELSE payload.payment_id.s
        IN  IF normalizedAmount = JSNull THEN Same(Ended(c, 500))
            ELSE IF transactionKey = "" THEN Same(Ended(c, 500))
            ELSE IF payload.status = Str("Paid")
            THEN PaidBranch(c, payment, transactionKey, normalizedAmount, x)
            ELSE IF payload.status = Str("Cancelled")
            THEN CancelledBranch(c, payment, transactionKey)
            ELSE Same(Ended(c, 200))

\* scheduleNextPayment up to its await fetch(...) (lines 205-248)
scheduleNextPayment(c, payment) ==
    IF payment.billingKey = "" \/ payment.orderName = "" \/ payment.customerId = ""
    THEN Ended(c, 500)
    ELSE Await(c, "schedule", c.local)

\* lines 426-440: the Cancel row is written; up to await
\* fetchScheduledPayments(...)
AfterInsertCancel(c) ==
    LET payment        == c.local.payment
        existingRecord == c.local.existingRecord
    IN  IF payment.billingKey = "" THEN Ended(c, 500)
        ELSE
        LET scheduleAt == existingRecord.next_schedule_at
            fromDate   == addDays(scheduleAt, -1)
            untilDate  == addDays(scheduleAt, 1)
        IN  Await(c, "list",
                  [payment |-> payment, existingRecord |-> existingRecord,
                   fromDate |-> fromDate, untilDate |-> untilDate])

\* the insert of insertPaymentRecord has settled (lines 166-181); ok says
\* whether the database answered without error.  On an error the function
\* throws and no row is written; else the row is in the table, and the
\* branch goes on (399-401, 426-440)
AfterInsert(c, ok) ==
    LET table == insertPaymentRecord(ledger, c.local.params, now, ok)
        d     == [c EXCEPT !.row = Len(table)]
    IN  IF ~ok
        THEN Outcome(Ended(Failed(c, "insert"), 500),
                     table, schedules, uuidCount, clients)
        ELSE Outcome(IF c.local.params.status = "Paid"
                     THEN scheduleNextPayment(d, c.local.payment)
                     ELSE AfterInsertCancel(d),
                     table, schedules, uuidCount, clients)

\* the registration taking the Paid row back when the gateway refuses it
AfterSchedule_RollsBack(c, ok) ==
    LET payment == c.local.payment
        params  == c.local.params
    IN  IF ~ok
        THEN Outcome(Ended(Failed(c, "schedule"), 500),
                     [i \in 1..(Len(ledger) - 1) |->
                         IF i < c.row THEN ledger[i] ELSE ledger[i + 1]],
                     schedules, uuidCount, clients)
        ELSE Outcome(Ended(c, 200), ledger,
                     schedules \cup {ScheduleItem(payment, params.amount,
                                                  params.nextScheduleAt,
                                                  params.nextScheduleId)},
                     uuidCount, clients)

\* the fetch of scheduleNextPayment has settled (lines 248-264, 408, 460); ok
\* says whether the gateway registered the schedule
AfterSchedule(c, ok) ==
    LET payment == c.local.payment
        params  == c.local.params
    IN  IF ~ok THEN Same(Ended(Failed(c, "schedule"), 500))
        ELSE Outcome(Ended(c, 200), ledger,
                     schedules \cup {ScheduleItem(payment, params.amount,
                                                  params.nextScheduleAt,
                                                  params.nextScheduleId)},
                     uuidCount, clients)

\* the query of fetchLatestPaymentRecord has settled (lines 186-203); ok says
\* whether the database answered without error, tie how it ordered rows
\* with equal created_at.  Up to the insert of
\* insertPaymentRecord (412-415, 164-166)
AfterFetchLatest(c, ok, tie) ==
    LET latest == fetchLatestPaymentRecord(ledger, c.local.transactionKey, ok, tie)
        d      == [c EXCEPT !.read = Len(ledger)]
    IN  IF ~ok THEN Same(Ended(Failed(d, "select"), 500))
        ELSE IF latest = << >> THEN Same(Ended(d, 500))
        ELSE
        LET existingRecord == latest[1]
            got            == getSupabaseServiceRoleClient(clients, env)
            params == [endAt          |-> existingRecord.end_at,
                       amount         |-> -existingRecord.amount,
                       transactionKey |-> existingRecord.transaction_key,
                       userId         |-> existingRecord.user_id,
                       status         |-> "Cancel",
                       startAt        |-> existingRecord.start_at,
                       endGraceAt     |-> existingRecord.end_grace_at,
                       nextScheduleAt |-> existingRecord.next_schedule_at,
                       nextScheduleId |-> existingRecord.next_schedule_id]
        IN  IF got.threw
            THEN Outcome(Ended(d, 500), ledger, schedules, uuidCount, got.clients)
            ELSE Outcome(Await(d, "insert",
                               [params |-> params,
                                payment |-> c.local.payment,
                                existingRecord |-> existingRecord]),
                         ledger, schedules, uuidCount, got.clients)

\* the Cancelled branch answering success when the list holds no schedule of
\* the row
AfterList_ToleratesMissing(c, ok) ==
    IF ~ok THEN Ended(Failed(c, "list"), 500)
    ELSE
    LET existingRecord == c.local.existingRecord
        scheduleItems  == fetchScheduledPayments(c.local.payment.billingKey,
                                                 c.local.fromDate,
                                                 c.local.untilDate)
        targets == {item \in scheduleItems :
                      item.paymentId = existingRecord.next_schedule_id}
    IN  IF targets = {} THEN Ended(c, 200)
        ELSE Await(c, "cancelSchedule",
                   [targetSchedule |-> CHOOSE item \in targets : TRUE])

\* fetchScheduledPayments has settled (lines 272-293); up to await
\* cancelScheduledPayment(...) (446-456).  ok says whether the gateway
\* answered with a list
AfterList(c, ok) ==
    IF ~ok THEN Ended(Failed(c, "list"), 500)
    ELSE
    LET existingRecord == c.local.existingRecord
        scheduleItems  == fetchScheduledPayments(c.local.payment.billingKey,
                                                 c.local.fromDate,
                                                 c.local.untilDate)
        targets == {item \in scheduleItems :
                      item.paymentId = existingRecord.next_schedule_id}
    IN  IF targets = {} THEN Ended(c, 500)
        ELSE Await(c, "cancelSchedule",
                   [targetSchedule |-> CHOOSE item \in targets : TRUE])

\* cancelScheduledPayment has settled (lines 300-315, 457-465); ok says
\* whether the gateway revoked the schedule
AfterCancelSchedule(c, ok) ==
    IF ~ok THEN Same(Ended(Failed(c, "cancel"), 500))
    ELSE Outcome(Ended(c, 200), ledger,
                 {s \in schedules : s.id # c.local.targetSchedule.id},
                 uuidCount, clients)

\* the piece of POST that runs when the call the run awaits has settled
WebhookPiece(c, ok, x, tie) ==
    CASE c.pc = "fetchPayment"   -> AfterFetchPayment(c, ok, x)
      [] c.pc = "insert"         -> AfterInsert(c, ok)
      [] c.pc = "schedule"       -> AfterSchedule(c, ok)
      [] c.pc = "fetchLatest"    -> AfterFetchLatest(c, ok, tie)
      [] c.pc = "list"           -> Same(AfterList(c, ok))
      [] c.pc = "cancelSchedule" -> AfterCancelSchedule(c, ok)

\* the body the webhook endpoint is sent
WebhookBody(pid, st) == [type |-> "object", status |-> st, payment_id |-> pid]

\* a request arrives at the webhook and runs up to its first await.  One
\* that arrives when the answer to a status query has just gone out, with no
\* other request in flight, is marked with what the query surfaced.
POST(json, body) ==
    LET after == IF resp.kind = "status" /\ resp.code = 200 /\ NoneRunning
                 THEN <<resp.userId, resp.transactionKey>>
                 ELSE << >>
        run   == WebhookReceive(WebhookRequest(json, body, after))
    IN  /\ resp.kind \in {"none", "status"}
        /\ run.pc # "done" =>
              /\ Len(ledger) + 1 + Cardinality({r \in Slots :
                    requests[r].kind = "webhook" /\ requests[r].row = 0}) <= MaxRows
              /\ uuidCount + PendingUUIDs + 1 <= MaxRows
        /\ Arrive(Same(run))
        /\ UNCHANGED <<env, now, payments, hook>>

\* the call the run in slot r awaits settles, and the run goes on to its next
\* await or to its response
POSTResume(r, ok, x) ==
    /\ resp.kind = "none"
    /\ requests[r].kind = "webhook"
    /\ requests[r].file = "part_004"
    /\ \E tie \in TiesAt(requests[r]) :
          Settle(r, WebhookPiece(requests[r], ok, x, tie))
    /\ UNCHANGED <<env, now, payments, hook>>

----------------------------------------------------------------------------
(* The earlier webhook handlers: POST of src/src/app/api/portone/route.ts,  *)
(* of src/unnamed/part_005 and of src/src/app/mypages/page.tsx.  None reads *)
(* the custom data of a charge: the rows they write carry no user_id, the   *)
(* schedules they register no custom data.  The handlers of                 *)
(* portone/route.ts and of page.tsx have no Cancelled branch.               *)

\* the column user_id of a row inserted without it
NullUserId == ""

\* POST (Paid branch): "addDays(startAt, 31)"
GraceDays == 31

\* buildNextScheduleAt of the two modules: setHours(10, 0, 0, 0) on the day
\* after end_at takes 10:00 of the local calendar day of the server's zone
\* (e.tz hours ahead of UTC), and Math.floor(Math.random() * 60) minutes are
\* added.  The draw x is Math.random() * 1 h
buildNextScheduleAt_Local(endAt, x, e) ==
    LET nextDay       == addDays(endAt, 1)
        localDay      == PlusMs(nextDay, e.tz * MsPerHour).day
        tenLocal      == PlusMs(Instant(localDay, 0), (10 - e.tz) * MsPerHour)
        randomMinutes == x.ms \div MsPerMinute
    IN  PlusMs(tenLocal, randomMinutes * MsPerMinute)

\* the branch payload.status === "Paid" up to the insert of savePaymentRecord
\* (portone/route.ts 219-234, 105-107; page.tsx 423-430, 316-318) or
\* insertPaymentRecord (part_005 312-328, 123-125), whose first statement
\* takes the service client, in page.tsx the client of the public key
PaidBranch_Earlier(c, payment, transactionKey, normalizedAmount, x) ==
    LET nextScheduleId == randomUUID(uuidCount + 1)
        startAt        == now
        endAt          == addDays(startAt, PeriodDays)
        endGraceAt     == addDays(startAt, GraceDays)
        nextScheduleAt == buildNextScheduleAt_Local(endAt, x, env)
        got            == IF c.file = "page.tsx"
                          THEN getSupabaseClient(clients, env)
                          ELSE getSupabaseServiceRoleClient(clients, env)
        params         == [endAt          |-> endAt,
                           amount         |-> normalizedAmount.n,
                           transactionKey |-> transactionKey,
                           userId         |-> NullUserId,
                           status         |-> "Paid",
                           startAt        |-> startAt,
                           endGraceAt     |-> endGraceAt,
                           nextScheduleAt |-> nextScheduleAt,
                           nextScheduleId |-> nextScheduleId]
    IN  IF got.threw
        THEN Outcome(Ended(c, 500), ledger, schedules, uuidCount + 1,
                     got.clients)
        ELSE Outcome(Await(c, "insert",
                           [params |-> params, payment |-> payment]),
                     ledger, schedules, uuidCount + 1, got.clients)

\* parseAmount of page.tsx (263-273): a number, or the number amount.total
parseAmount_Page(amount) ==
    IF amount.type = "number" THEN amount
    ELSE IF amount.type = "object" /\ amount.total.type = "number"
    THEN amount.total
    ELSE JSNull

\* fetchPayment of page.tsx has settled (415-449): the amount must be a
\* number other than 0 and the answer must carry paymentId, which is the
\* key of the row; a Cancelled notification goes on to the response
AfterFetchPayment_Page(c, ok, x) ==
    LET payload == c.local.payload
    IN  IF ~ok THEN Same(Ended(Failed(c, "fetch"), 500))
        ELSE IF ~HasPayment(payload.payment_id.s) THEN Same(Ended(c, 500))
        ELSE
        LET payment          == PaymentOf(payload.payment_id.s)
            normalizedAmount == parseAmount_Page(payment.amount)
        IN  IF normalizedAmount \in {JSNull, NaN, Num(0)}
            THEN Same(Ended(c, 500))
            ELSE IF payment.paymentId \in {Undef, Str("")}
            THEN Same(Ended(c, 500))
            ELSE IF payload.status = Str("Paid")
            THEN PaidBranch_Earlier(c, payment, payment.paymentId.s,
                                    normalizedAmount, x)
            ELSE Same(Ended(c, 200))

\* fetchPayment has settled (portone/route.ts 204-250, part_005 295-342); ok
\* says whether the gateway answered 2xx.  In portone/route.ts a Cancelled
\* notification goes on to the response
AfterFetchPayment_Earlier(c, ok, x) ==
    LET payload == c.local.payload
    IN  IF c.file = "page.tsx" THEN AfterFetchPayment_Page(c, ok, x)
        ELSE IF ~ok THEN Same(Ended(Failed(c, "fetch"), 500))
        ELSE IF ~HasPayment(payload.payment_id.s) THEN Same(Ended(c, 500))
        ELSE
        LET payment          == PaymentOf(payload.payment_id.s)
            normalizedAmount == parseAmount(payment.amount)
            transactionKey   ==
                IF payment.paymentId # Undef THEN payment.paymentId.s
                ELSE IF payment.id # Undef THEN payment.id.s
                ELSE payload.payment_id.s
        IN  IF normalizedAmount = JSNull THEN Same(Ended(c, 500))
            ELSE IF transactionKey = "" THEN Same(Ended(c, 500))
            ELSE IF payload.status = Str("Paid")
            THEN PaidBranch_Earlier(c, payment, transactionKey,
                                    normalizedAmount, x)
            ELSE IF c.file = "part_005" /\ payload.status = Str("Cancelled")
            THEN CancelledBranch(c, payment, transactionKey)
            ELSE Same(Ended(c, 200))

\* the fetch of scheduleNextPayment has settled (portone/route.ts 136-165,
\* part_005 176-205): the body sent holds billingKey, orderName, customer,
\* amount and currency, and no customData
AfterSchedule_Earlier(c, ok) ==
    AfterSchedule([c EXCEPT !.local.payment.customData = Undef], ok)

\* the query of fetchLatestPaymentRecord of part_005 has settled (141-161);
\* up to the insert of the Cancel row (345-354, 123-125), which copies the
\* row found without user_id
AfterFetchLatest_Earlier(c, ok, tie) ==
    LET out == AfterFetchLatest(c, ok, tie)
    IN  IF out.run.pc = "insert"
        THEN [out EXCEPT !.run.local.params.userId = NullUserId]
        ELSE out

\* the piece of POST that runs when the call the run awaits has settled
WebhookPiece_Earlier(c, ok, x, tie) ==
    CASE c.pc = "fetchPayment"   -> AfterFetchPayment_Earlier(c, ok, x)
      [] c.pc = "insert"         -> AfterInsert(c, ok)
      [] c.pc = "schedule"       -> AfterSchedule_Earlier(c, ok)
      [] c.pc = "fetchLatest"    -> AfterFetchLatest_Earlier(c, ok, tie)
      [] c.pc = "list"           -> Same(AfterList(c, ok))
      [] c.pc = "cancelSchedule" -> AfterCancelSchedule(c, ok)

\* the earlier route modules of the webhook
EarlierWebhooks == {"portone/route.ts", "part_005", "page.tsx"}

\* a request arrives at an earlier webhook and runs up to its first await:
\* the body is read and validated and the secret looked for as in part_004
POST_Earlier(file, json, body) ==
    LET run == WebhookReceive([WebhookRequest(json, body, << >>) EXCEPT
                                  !.file = file])
    IN  /\ resp.kind = "none"
        /\ file \in EarlierWebhooks
        /\ run.pc # "done" =>
              /\ Len(ledger) + 1 + Cardinality({r \in Slots :
                    requests[r].kind = "webhook" /\ requests[r].row = 0}) <= MaxRows
              /\ uuidCount + PendingUUIDs + 1 <= MaxRows
        /\ Arrive(Same(run))
        /\ UNCHANGED <<env, now, payments, hook>>

\* the call the run in slot r awaits settles, and the run goes on to its next
\* await or to its response
POSTResume_Earlier(r, ok, x) ==
    /\ resp.kind = "none"
    /\ requests[r].kind = "webhook"
    /\ requests[r].file \in EarlierWebhooks
    /\ \E tie \in TiesAt(requests[r]) :
          Settle(r, WebhookPiece_Earlier(requests[r], ok, x, tie))
    /\ UNCHANGED <<env, now, payments, hook>>

----------------------------------------------------------------------------
(* Authorization: getUserIdFromSession (part_008 and cancel/route.ts) *)

\* the Authorization header: absent, or a value; `bearer` says whether the
\* value starts with "Bearer ", `token` is the rest
NoHeader       == [present |-> FALSE]
Header(b, tok) == [present |-> TRUE, bearer |-> b, token |-> tok]
Headers ==
    { NoHeader, Header(TRUE, "t-u1"), Header(TRUE, "t-u2"),
      Header(TRUE, "t-bad"), Header(TRUE, "") }

\* supabase.auth.getUser(token): the user of a valid session token
TokenUsers == {<<"t-u1", "u1">>, <<"t-u2", "u2">>}

\* getUserIdFromSession up to await supabase.auth.getUser(token): the token
\* it asks for, or "" when it returns null without asking
SessionToken(header) ==
    IF ~AnonConfigured(env) THEN ""
    ELSE IF ~header.present THEN ""
    ELSE header.token   \* authHeader.replace("Bearer ", "")

\* getUserIdFromSession once getUser has settled: the user id, or "" for
\* null.  auth says whether the auth server answered the call; when it gives
\* an error, or the call throws, the function returns null as it does for a
\* token that is no session's
SessionUser(token, auth) ==
    IF auth /\ \E tu \in TokenUsers : tu[1] = token
    THEN (CHOOSE tu \in TokenUsers : tu[1] = token)[2]
    ELSE ""

\* the user id, or "" for null
getUserIdFromSession(header, auth) ==
    LET token == SessionToken(header)
    IN  IF token = "" THEN "" ELSE SessionUser(token, auth)

----------------------------------------------------------------------------
(* The subscription status resolver: GET of src/unnamed/part_008 *)

\* the keys of paymentMap in insertion order: each transaction_key at the
\* place of its first row; rows with an empty key are skipped
RECURSIVE GroupKeys(_, _)
GroupKeys(rows, seen) ==
    IF rows = << >> THEN << >>
    ELSE LET key == Head(rows).transaction_key
         IN  IF key = "" \/ key \in seen THEN GroupKeys(Tail(rows), seen)
             ELSE <<key>> \o GroupKeys(Tail(rows), seen \cup {key})

\* the loop over one group taking a row whose created_at is not less than
\* every created_at before it
RECURSIVE LatestOfGroup_LastOfTies(_, _, _)
LatestOfGroup_LastOfTies(group, latestPayment, latestCreatedAt) ==
    IF group = << >> THEN latestPayment
    ELSE LET payment == Head(group)
         IN  IF TLeq(latestCreatedAt, payment.created_at)
             THEN LatestOfGroup_LastOfTies(Tail(group), <<payment>>, payment.created_at)
             ELSE LatestOfGroup_LastOfTies(Tail(group), latestPayment, latestCreatedAt)

\* the loop over one group: the first row whose created_at is greater than
\* every created_at before it and greater than 0 (the epoch); << >> if none
RECURSIVE LatestOfGroup(_, _, _)
LatestOfGroup(group, latestPayment, latestCreatedAt) ==
    IF group = << >> THEN latestPayment
    ELSE LET payment == Head(group)
         IN  IF TLt(latestCreatedAt, payment.created_at)
             THEN LatestOfGroup(Tail(group), <<payment>>, payment.created_at)
             ELSE LatestOfGroup(Tail(group), latestPayment, latestCreatedAt)

\* latestPaymentsByGroup.values(), in the order of the groups
RECURSIVE LatestPaymentsByGroup(_, _)
LatestPaymentsByGroup(allPayments, keys) ==
    IF keys = << >> THEN << >>
    ELSE LET key   == Head(keys)
             InGroup(payment) == payment.transaction_key = key
             group == SelectSeq(allPayments, InGroup)
         IN  LatestOfGroup(group, << >>, Instant(0, 0))
               \o LatestPaymentsByGroup(allPayments, Tail(keys))

\* the filter of step 1-1-3 with the period starting after start_at
IsActivePayment_ExclusiveStart(payment, nowMs) ==
    /\ payment.status = "Paid"
    /\ TLt(payment.start_at, nowMs)
    /\ TLeq(nowMs, payment.end_grace_at)

\* the filter of step 1-1-3
IsActivePayment(payment, nowMs) ==
    /\ payment.status = "Paid"
    /\ TLeq(payment.start_at, nowMs)
    /\ TLeq(nowMs, payment.end_grace_at)

\* activePayments for the rows of userId at nowMs, the query giving rows
\* with equal created_at as `tie` ranks them
ActivePayments(table, userId, nowMs, tie) ==
    LET allPayments == OrderByCreatedAtDesc(table,
                          {i \in DOMAIN table : table[i].user_id = userId}, tie)
        latest == LatestPaymentsByGroup(allPayments, GroupKeys(allPayments, {}))
        Active(payment) == IsActivePayment(payment, nowMs)
    IN  SelectSeq(latest, Active)

\* a request to the status endpoint as it arrives.  `at` is the instant the
\* answer is computed for (nowMs, once the clock is read), `auth` whether the
\* auth server answered getUser, `db` whether the query of the table
\* succeeded, `caller` the call of the hook that sent the
\* request (0: none of the page the model follows), `rows` the places of the
\* rows the query gave, in the order it gave them, `file` the route module
\* that serves the request
StatusRequest(header, after, caller) ==
    [isSubscribed |-> FALSE, transactionKey |-> Undef, pc |-> "start", kind |-> "status",
     userId |-> "", local |-> << >>, code |-> 0,
     success |-> FALSE, at |-> now, after |-> after, file |-> "part_008", header |-> header,
     auth |-> TRUE, rows |-> << >>, caller |-> caller, db |-> TRUE]

\* respond(success, isSubscribed, transactionKey, message, status)
StatusAnswer(c, isSubscribed, transactionKey, code) ==
    [Ended(c, code) EXCEPT !.isSubscribed = isSubscribed,
                           !.transactionKey = transactionKey]

\* lines 77-111 and 25-44: up to await supabase.auth.getUser(token)
StatusReceive(c) ==
    LET got   == getSupabaseServiceRoleClient(clients, env)
        token == SessionToken(c.header)
    IN  IF got.threw   \* the throw is caught
        THEN Outcome(StatusAnswer(c, FALSE, Undef, 500),
                     ledger, schedules, uuidCount, got.clients)
        ELSE IF token = ""
        THEN Outcome(StatusAnswer(c, FALSE, Undef, 401),
                     ledger, schedules, uuidCount, got.clients)
        ELSE Outcome(Suspend(c, "getUser", [token |-> token]),
                     ledger, schedules, uuidCount, got.clients)

\* getUser has settled (lines 44-50, 111-133); ok says whether the auth
\* server answered it.  The clock is read; up to the await of the query
AfterGetUser(c, ok) ==
    LET userId == SessionUser(c.local.token, ok)
        d      == [c EXCEPT !.auth = ok]
    IN  IF userId = "" THEN StatusAnswer(d, FALSE, Undef, 401)
        ELSE LET nowMs == now
             IN  Suspend([d EXCEPT !.userId = userId, !.at = nowMs], "query", << >>)

\* the query has settled over the rows of `table` (lines 133-249); ok says
\* whether it succeeded, tie how the database ordered rows with equal
\* created_at
AfterQuery(c, table, ok, tie) ==
    IF ~ok THEN StatusAnswer([c EXCEPT !.db = FALSE], FALSE, Undef, 500)
    ELSE LET activePayments == ActivePayments(table, c.userId, c.at, tie)
             isSubscribed   == Len(activePayments) > 0
             transactionKey == IF isSubscribed
                               THEN Str(activePayments[1].transaction_key)
                               ELSE Undef
             given == QueryOrder(table,
                         {i \in DOMAIN table : table[i].user_id = c.userId}, tie)
         IN  StatusAnswer([c EXCEPT !.rows = given], isSubscribed,
                          transactionKey, 200)

\* the piece of GET that runs when the call the run awaits has settled; ok
\* says whether the call was answered without error
StatusPiece(c, ok, tie) ==
    CASE c.pc = "getUser" -> Same(AfterGetUser(c, ok))
      [] c.pc = "query"   -> Same(AfterQuery(c, ledger, ok, tie))

\* a request arrives at the status endpoint and runs up to its first await.
\* One that arrives when the answer to a Cancelled notification has just gone
\* out, with no other request in flight, is marked with the notification.
GET(header) ==
    LET after == IF resp.kind = "webhook" /\ resp.success /\ NoneRunning
                      /\ resp.body.status.s = "Cancelled"
                 THEN <<resp.body.payment_id.s, resp.after>>
                 ELSE << >>
    IN  /\ resp.kind \in {"none", "webhook"}
        /\ Arrive(StatusReceive(StatusRequest(header, after, 0)))
        /\ UNCHANGED <<env, now, payments, hook>>

\* the call the run in slot r awaits settles, and the run goes on to its next
\* await or to its response
GETResume(r, ok) ==
    /\ resp.kind = "none"
    /\ requests[r].kind = "status"
    /\ requests[r].file = "part_008"
    /\ requests[r].caller = 0
    /\ \E tie \in TiesAt(requests[r]) :
          Settle(r, StatusPiece(requests[r], ok, tie))
    /\ UNCHANGED <<env, now, payments, hook>>

----------------------------------------------------------------------------
(* The earlier status resolvers: GET of src/unnamed/part_006 and of        *)
(* src/unnamed/part_007.  Neither asks for a credential, and both read the *)
(* rows of every user.                                                     *)

\* paymentMap.values() of part_006 (104-131): a row without key is passed
\* over; the first row of a key is set whatever its created_at, and a later
\* row of the key takes its place when its created_at is greater.  The
\* values come in the order in which the keys were first set
RECURSIVE PaymentMap_Part006(_, _)
PaymentMap_Part006(rows, map) ==
    IF rows = << >> THEN map
    ELSE LET payment == Head(rows)
             at == {i \in DOMAIN map :
                      map[i].transaction_key = payment.transaction_key}
         IN  IF payment.transaction_key = ""
             THEN PaymentMap_Part006(Tail(rows), map)
             ELSE IF at = {}
             THEN PaymentMap_Part006(Tail(rows), Append(map, payment))
             ELSE LET i == CHOOSE j \in at : TRUE
                  IN  IF TLt(map[i].created_at, payment.created_at)
                      THEN PaymentMap_Part006(Tail(rows),
                                              [map EXCEPT ![i] = payment])
                      ELSE PaymentMap_Part006(Tail(rows), map)

\* activePayments of part_006 (86-165): every row of the table is read and
\* grouped; the filter comes last
ActivePayments_Part006(table, nowMs, tie) ==
    LET allPayments == OrderByCreatedAtDesc(table, DOMAIN table, tie)
        Active(payment) == IsActivePayment(payment, nowMs)
    IN  SelectSeq(PaymentMap_Part006(allPayments, << >>), Active)

\* paymentMap.values() of part_007 (77-91): the first row of each key, the
\* empty key among them
RECURSIVE FirstOfKeys(_, _)
FirstOfKeys(rows, seen) ==
    IF rows = << >> THEN << >>
    ELSE LET key == Head(rows).transaction_key
         IN  IF key \in seen THEN FirstOfKeys(Tail(rows), seen)
             ELSE <<Head(rows)>> \o FirstOfKeys(Tail(rows), seen \cup {key})

\* the places the query of part_007 selects (61-67): .eq("status", "Paid")
\* .lte("start_at", now).gte("end_grace_at", now)
PaidInPeriod(table, nowMs) ==
    {i \in DOMAIN table : IsActivePayment(table[i], nowMs)}

\* activePayments of part_007: the query filters, the loop groups
ActivePayments_Part007(table, nowMs, tie) ==
    FirstOfKeys(OrderByCreatedAtDesc(table, PaidInPeriod(table, nowMs), tie), {})

\* part_006 62-89, part_007 54-67: the service client is taken and the clock
\* read; up to the await of the query.  The Authorization header is not read
StatusReceive_Earlier(c) ==
    LET got == getSupabaseServiceRoleClient(clients, env)
    IN  IF got.threw   \* the throw is caught
        THEN Outcome(StatusAnswer(c, FALSE, Undef, 500),
                     ledger, schedules, uuidCount, got.clients)
        ELSE Outcome(Suspend([c EXCEPT !.at = now], "query", << >>),
                     ledger, schedules, uuidCount, got.clients)

\* the query has settled over the rows of `table` (part_006 93-187, part_007
\* 71-103)
AfterQuery_Earlier(c, table, ok, tie) ==
    IF ~ok THEN StatusAnswer([c EXCEPT !.db = FALSE], FALSE, Undef, 500)
    ELSE LET activePayments ==
                 IF c.file = "part_006"
                 THEN ActivePayments_Part006(table, c.at, tie)
                 ELSE ActivePayments_Part007(table, c.at, tie)
             isSubscribed   == Len(activePayments) > 0
             transactionKey == IF isSubscribed
                               THEN Str(activePayments[1].transaction_key)
                               ELSE Undef
             given == QueryOrder(table,
                         IF c.file = "part_006" THEN DOMAIN table
                         ELSE PaidInPeriod(table, c.at), tie)
         IN  StatusAnswer([c EXCEPT !.rows = given], isSubscribed,
                          transactionKey, 200)

\* the earlier route modules of the status endpoint
EarlierResolvers == {"part_006", "part_007"}

\* a request arrives at an earlier status endpoint and runs up to the await
\* of its query
GET_Earlier(file, header) ==
    /\ resp.kind \in {"none", "webhook"}
    /\ file \in EarlierResolvers
    /\ Arrive(StatusReceive_Earlier([StatusRequest(header, << >>, 0) EXCEPT
                                        !.file = file]))
    /\ UNCHANGED <<env, now, payments, hook>>

\* the query the run in slot r awaits settles
GETResume_Earlier(r, ok) ==
    /\ resp.kind = "none"
    /\ requests[r].kind = "status"
    /\ requests[r].file \in EarlierResolvers
    /\ \E tie \in TiesAt(requests[r]) :
          Settle(r, Same(AfterQuery_Earlier(requests[r], ledger, ok, tie)))
    /\ UNCHANGED <<env, now, payments, hook>>

----------------------------------------------------------------------------
(* The cancellation endpoint: POST of src/src/app/api/payments/cancel/route.ts *)

\* String.prototype.trim() on the strings the model sends
Trim(str) == IF str \in {"", " "} THEN "" ELSE str

validateCancelRequest(body) ==
    IF body.type # "object" THEN FALSE
    ELSE IF ~(body.transactionKey.type = "string"
              /\ Trim(body.transactionKey.s) # "") THEN FALSE
    ELSE TRUE

\* the answers of the gateway to POST /payments/{key}/cancel: the HTTP
\* status and the `type` of the error body ("" when the body is no JSON or
\* has no type)
GatewayAnswer(status, type) == [type |-> type, status |-> status]
CancelChargeAnswers ==
    { GatewayAnswer(200, ""), GatewayAnswer(404, "PAYMENT_NOT_FOUND"),
      GatewayAnswer(409, "PAYMENT_ALREADY_CANCELLED"),
      GatewayAnswer(409, "PAYMENT_NOT_PAID"), GatewayAnswer(409, ""),
      GatewayAnswer(500, "") }

\* what a run holds as the answer of the gateway when it did not call it
NoAnswer == GatewayAnswer(0, "")

\* fetch(...) rejects: the request did not reach the gateway, or no answer
\* came back
FetchRejected == GatewayAnswer(0, "TypeError")

\* the first n steps of CHECKLIST_STEPS completed
Checklist(n) == [i \in 1..6 |-> i <= n]

\* a request to the cancellation endpoint as it arrives; json says whether
\* request.json() parses the body.  `calls` lists the calls to the gateway
\* the run has made, `read` the number of rows the ledger held when the
\* lookup read it, `auth` whether the auth server answered getUser, `db`
\* whether the database answered the lookup, `file` the route module that
\* serves the request
CancelRequestOf(header, json, body) ==
    [checklist |-> Checklist(0), calls |-> << >>, pc |-> "start",
     kind |-> "cancel", userId |-> "", local |-> << >>, code |-> 0,
     success |-> FALSE, at |-> now, body |-> body,
     json |-> json, file |-> "cancel/route.ts", read |-> 0, header |-> header, auth |-> TRUE,
     db |-> TRUE, answer |-> NoAnswer]

\* respond(success, status) with the first `done` steps completed
CancelAnswer(c, code, done) ==
    [Ended(c, code) EXCEPT !.checklist = Checklist(done)]

\* lines 78-109 and 47-66: the body is read and validated; up to await
\* supabase.auth.getUser(token)
CancelReceive(c) ==
    IF ~c.json THEN CancelAnswer(c, 400, 0)
    ELSE IF ~validateCancelRequest(c.body) THEN CancelAnswer(c, 400, 1)
    ELSE LET token == SessionToken(c.header)
         IN  IF token = "" THEN CancelAnswer(c, 401, 2)
             ELSE Suspend(c, "getUser", [token |-> token])

\* getUser has settled (lines 66-72, 109-124); ok says whether the auth
\* server answered it.  Up to the await of the lookup
CancelAfterGetUser(c, ok) ==
    LET userId == SessionUser(c.local.token, ok)
        got    == getSupabaseServiceRoleClient(clients, env)
        d      == [c EXCEPT !.auth = ok]
    IN  IF userId = "" THEN Same(CancelAnswer(d, 401, 2))
        ELSE IF got.threw   \* the throw is caught
        THEN Outcome(CancelAnswer([d EXCEPT !.userId = userId], 500, 0),
                     ledger, schedules, uuidCount, got.clients)
        ELSE Outcome(Suspend([d EXCEPT !.userId = userId], "lookup", << >>),
                     ledger, schedules, uuidCount, got.clients)

\* the lookup has settled over the rows of `table` (lines 119-148); up to
\* await fetch(.../cancel).
\* .eq("user_id", userId).eq("transaction_key", key).maybeSingle(): no row
\* gives null, several rows give an error
AfterLookup(c, table, ok) ==
    LET matching == {i \in DOMAIN table :
                        /\ table[i].user_id = c.userId
                        /\ table[i].transaction_key = c.body.transactionKey.s}
        d        == [c EXCEPT !.read = Len(table), !.db = ok]
    IN  IF ~ok THEN CancelAnswer(d, 500, 3)
        ELSE IF Cardinality(matching) > 1 THEN CancelAnswer(d, 500, 3)
        ELSE IF matching = {} THEN CancelAnswer(d, 404, 3)
        ELSE IF ~env.apiSecret THEN CancelAnswer(d, 500, 4)
        ELSE Await(d, "cancelCharge", << >>)

\* the fetch of the gateway's cancel has settled (lines 148-193).  When it
\* rejects, the catch block answers 500 with a checklist of its own, no step
\* completed; else the gateway has answered, and the body of an error answer
\* is read
AfterCancelCharge(c, answer) ==
    LET d == [c EXCEPT !.answer = answer]
    IN  IF answer = FetchRejected THEN CancelAnswer(d, 500, 0)
        ELSE IF answer.status \in 200..299 THEN CancelAnswer(d, 200, 6)
        ELSE IF answer.status = 409 /\ answer.type = "PAYMENT_ALREADY_CANCELLED"
             THEN CancelAnswer(d, 200, 6)
        ELSE CancelAnswer(d, 500, 5)

\* the piece of POST that runs when the call the run awaits has settled
CancelPiece(c, answer) ==
    LET ok == answer.status \in 200..299
    IN  CASE c.pc = "getUser"      -> CancelAfterGetUser(c, ok)
          [] c.pc = "lookup"       -> Same(AfterLookup(c, ledger, ok))
          [] c.pc = "cancelCharge" -> Same(AfterCancelCharge(c, answer))

CancelBody(key) == [type |-> "object", transactionKey |-> key]
CancelBodies ==
    {CancelBody(Str(k)) : k \in {"p1", "zz"}}
    \cup {CancelBody(Str(" ")), CancelBody(Undef), JSNull}

\* a request arrives at the cancellation endpoint and runs up to its first
\* await after the body is read
CancelPOST(header, json, body) ==
    /\ resp.kind = "none"
    /\ Arrive(Same(CancelReceive(CancelRequestOf(header, json, body))))
    /\ UNCHANGED <<env, now, payments, hook>>

\* the call the run in slot r awaits settles, and the run goes on to its next
\* await or to its response
CancelResume(r, answer) ==
    /\ resp.kind = "none"
    /\ requests[r].kind = "cancel"
    /\ requests[r].file = "cancel/route.ts"
    /\ Settle(r, CancelPiece(requests[r], answer))
    /\ UNCHANGED <<env, now, payments, hook>>

----------------------------------------------------------------------------
(* The earlier cancellation endpoint: POST of src/unnamed/part_009, lines   *)
(* 39-110.  It asks for no credential and does not read the table.         *)

\* the first n of the four steps of its CHECKLIST_STEPS completed
Checklist_Earlier(n) == [i \in 1..4 |-> i <= n]

\* respond(success, status) with the first `done` steps completed
CancelAnswer_Earlier(c, code, done) ==
    [Ended(c, code) EXCEPT !.checklist = Checklist_Earlier(done)]

\* lines 39-76: the body is read and validated and the secret is looked for;
\* up to await fetch(.../cancel)
CancelReceive_Earlier(c) ==
    IF ~c.json THEN CancelAnswer_Earlier(c, 400, 0)
    ELSE IF ~validateCancelRequest(c.body) THEN CancelAnswer_Earlier(c, 400, 1)
    ELSE IF ~env.apiSecret THEN CancelAnswer_Earlier(c, 500, 2)
    ELSE Await(c, "cancelCharge", << >>)

\* the fetch has settled (lines 93-110).  When it rejects, the catch block
\* answers 500, no step completed; every answer of the gateway that is not
\* 2xx is answered 500
AfterCancelCharge_Earlier(c, answer) ==
    LET d == [c EXCEPT !.answer = answer]
    IN  IF answer = FetchRejected THEN CancelAnswer_Earlier(d, 500, 0)
        ELSE IF answer.status \in 200..299 THEN CancelAnswer_Earlier(d, 200, 4)
        ELSE CancelAnswer_Earlier(d, 500, 3)

\* a request arrives at the earlier cancellation endpoint and runs up to its
\* await of the gateway; the Authorization header it carries is not read
CancelPOST_Earlier(header, json, body) ==
    LET c == [CancelRequestOf(header, json, body) EXCEPT
                 !.file = "part_009", !.checklist = Checklist_Earlier(0)]
    IN  /\ resp.kind = "none"
        /\ Arrive(Same(CancelReceive_Earlier(c)))
        /\ UNCHANGED <<env, now, payments, hook>>

\* the gateway's cancel settles for the run in slot r
CancelResume_Earlier(r, answer) ==
    /\ resp.kind = "none"
    /\ requests[r].kind = "cancel"
    /\ requests[r].file = "part_009"
    /\ Settle(r, Same(AfterCancelCharge_Earlier(requests[r], answer)))
    /\ UNCHANGED <<env, now, payments, hook>>

----------------------------------------------------------------------------
(* The first-charge endpoint: POST of src/unnamed/part_009 (lines 199-299) *)

validatePaymentRequest(body) ==
    IF body.type # "object" THEN FALSE
    ELSE IF ~(body.billingKey.type = "string" /\ Trim(body.billingKey.s) # "")
         THEN FALSE
    ELSE IF ~(body.orderName.type = "string" /\ Trim(body.orderName.s) # "")
         THEN FALSE
    \* typeof req.amount !== "number" || req.amount <= 0: NaN <= 0 is false
    ELSE IF ~(body.amount.type = "number"
              /\ (IsNaN(body.amount) \/ body.amount.n > 0))
         THEN FALSE
    ELSE IF body.customer.type # "object" THEN FALSE
    ELSE IF ~(body.customer.id.type = "string" /\ Trim(body.customer.id.s) # "")
         THEN FALSE
    ELSE IF ~(body.customData.type = "string" /\ Trim(body.customData.s) # "")
         THEN FALSE
    ELSE TRUE

\* a request to the first-charge endpoint as it arrives, suspended at await
\* request.json(); json says whether the body parses.  `auth` is whether the
\* auth server answered getUser, `file` the route module that serves the
\* request
ChargeRequest(header, json, body) ==
    [calls |-> << >>, pc |-> "json", kind |-> "charge", userId |-> "",
     local |-> << >>, code |-> 0, success |-> FALSE, at |-> now,
     body |-> body, json |-> json, file |-> "part_009", header |-> header,
     auth |-> TRUE]

\* what a piece of a run of the endpoint leaves behind: the run, the count
\* of UUIDs and the payments the gateway holds
ChargeOutcome(run, uuids, held) ==
    [ledger |-> ledger, payments |-> held, schedules |-> schedules,
     uuidCount |-> uuids, clients |-> clients, run |-> run]

\* the payment the gateway holds once it has accepted
\* POST /payments/{paymentId}/billing-key with the fields of the body
ChargeHeld(body, paymentId, customData) ==
    [amount |-> body.amount, key |-> paymentId, paymentId |-> Undef,
     id |-> Str(paymentId), billingKey |-> body.billingKey.s,
     orderName |-> body.orderName.s, customerId |-> body.customer.id.s,
     customData |-> customData]

\* lines 204-225 and 131-150: the body has been read; up to await
\* supabase.auth.getUser(token)
AfterJson(c) ==
    IF ~c.json THEN Ended(c, 400)
    ELSE IF ~validatePaymentRequest(c.body) THEN Ended(c, 400)
    ELSE LET token == SessionToken(c.header)
         IN  IF token = "" THEN Ended(c, 401)
             ELSE Suspend(c, "getUser", [token |-> token])

\* getUser has settled (lines 150-156, 226-257); ok says whether the auth
\* server answered it.  Up to await fetch(.../billing-key)
ChargeAfterGetUser(c, ok) ==
    LET userId == SessionUser(c.local.token, ok)
        d      == [c EXCEPT !.auth = ok, !.userId = userId]
    IN  IF userId = "" THEN ChargeOutcome(Ended(d, 401), uuidCount, payments)
        ELSE IF userId # c.body.customData.s
        THEN ChargeOutcome(Ended(d, 403), uuidCount, payments)
        ELSE IF ~env.apiSecret
        THEN ChargeOutcome(Ended(d, 500), uuidCount, payments)
        ELSE LET paymentId == randomUUID(uuidCount + 1)
             IN  ChargeOutcome(Await(d, "charge", [paymentId |-> paymentId]),
                               uuidCount + 1, payments)

\* the fetch has settled (lines 257-298); ok says whether the gateway
\* accepted the charge, which it then holds under paymentId.  An answer that
\* is not 2xx and a fetch that rejects are both answered 500
AfterCharge(c, ok) ==
    IF ~ok THEN ChargeOutcome(Ended(c, 500), uuidCount, payments)
    ELSE ChargeOutcome(Ended(c, 200), uuidCount,
                       payments \cup {ChargeHeld(c.body, c.local.paymentId,
                                                 c.body.customData)})

\* the piece of POST that runs when what the run awaits has settled
ChargePiece(c, ok) ==
    CASE c.pc = "json"    -> ChargeOutcome(AfterJson(c), uuidCount, payments)
      [] c.pc = "getUser" -> ChargeAfterGetUser(c, ok)
      [] c.pc = "charge"  -> AfterCharge(c, ok)

ChargeBody(billingKey, amount, customData) ==
    [type |-> "object", amount |-> amount, billingKey |-> billingKey,
     orderName |-> Str("sub"), customData |-> customData,
     customer |-> [type |-> "object", id |-> Str("c1")]]
ChargeBodies ==
    { ChargeBody(Str("bk1"), Num(9900), Str("u1")),
      ChargeBody(Str("bk1"), Num(9900), Str("u2")),
      ChargeBody(Str("bk1"), Num(0), Str("u1")),
      ChargeBody(Str(" "), Num(9900), Str("u1")),
      ChargeBody(Str("bk1"), Num(9900), Undef),
      JSNull }

\* a request arrives at the first-charge endpoint, which awaits its body
ChargePOST(header, json, body) ==
    /\ resp.kind = "none"
    /\ \E r \in Slots : requests[r] = Idle
    /\ requests' = [requests EXCEPT ![FreeSlot] = ChargeRequest(header, json, body)]
    /\ UNCHANGED <<env, now, ledger, payments, schedules, uuidCount, resp, hook,
                   clients>>

\* what the run in slot r awaits settles, and the run goes on to its next
\* await or to its response
ChargeResume(r, ok) ==
    LET out == ChargePiece(requests[r], ok)
    IN  /\ resp.kind = "none"
        /\ requests[r].kind = "charge"
        /\ requests[r].file = "part_009"
        /\ out.uuidCount + PendingUUIDs <= MaxRows
        /\ payments' = out.payments
        /\ Settle(r, out)
        /\ UNCHANGED <<env, now, hook>>

----------------------------------------------------------------------------
(* The earlier first-charge endpoint: POST of src/unnamed/part_010.  It     *)
(* asks for no credential and sends the gateway no custom data.            *)

\* validatePaymentRequest of part_010 (lines 18-47): no customData
validatePaymentRequest_Earlier(body) ==
    IF body.type # "object" THEN FALSE
    ELSE IF ~(body.billingKey.type = "string" /\ Trim(body.billingKey.s) # "")
         THEN FALSE
    ELSE IF ~(body.orderName.type = "string" /\ Trim(body.orderName.s) # "")
         THEN FALSE
    ELSE IF ~(body.amount.type = "number"
              /\ (IsNaN(body.amount) \/ body.amount.n > 0))
         THEN FALSE
    ELSE IF body.customer.type # "object" THEN FALSE
    ELSE IF ~(body.customer.id.type = "string" /\ Trim(body.customer.id.s) # "")
         THEN FALSE
    ELSE TRUE

\* lines 52-83: the body has been read; up to await fetch(.../billing-key)
AfterJson_Earlier(c) ==
    IF ~c.json THEN ChargeOutcome(Ended(c, 400), uuidCount, payments)
    ELSE IF ~validatePaymentRequest_Earlier(c.body)
    THEN ChargeOutcome(Ended(c, 400), uuidCount, payments)
    ELSE IF ~env.apiSecret THEN ChargeOutcome(Ended(c, 500), uuidCount, payments)
    ELSE LET paymentId == randomUUID(uuidCount + 1)
         IN  ChargeOutcome(Await(c, "charge", [paymentId |-> paymentId]),
                           uuidCount + 1, payments)

\* the fetch has settled (lines 83-128): the payment the gateway holds has no
\* custom data
AfterCharge_Earlier(c, ok) ==
    IF ~ok THEN ChargeOutcome(Ended(c, 500), uuidCount, payments)
    ELSE ChargeOutcome(Ended(c, 200), uuidCount,
                       payments \cup {ChargeHeld(c.body, c.local.paymentId,
                                                 Undef)})

\* a request arrives at the earlier first-charge endpoint, which awaits its
\* body; the Authorization header it carries is not read
ChargePOST_Earlier(header, json, body) ==
    /\ resp.kind = "none"
    /\ \E r \in Slots : requests[r] = Idle
    /\ requests' = [requests EXCEPT ![FreeSlot] =
                       [ChargeRequest(header, json, body) EXCEPT
                           !.file = "part_010"]]
    /\ UNCHANGED <<env, now, ledger, payments, schedules, uuidCount, resp, hook,
                   clients>>

\* what the run in slot r awaits settles
ChargeResume_Earlier(r, ok) ==
    LET out == IF requests[r].pc = "json" THEN AfterJson_Earlier(requests[r])
               ELSE AfterCharge_Earlier(requests[r], ok)
    IN  /\ resp.kind = "none"
        /\ requests[r].kind = "charge"
        /\ requests[r].file = "part_010"
        /\ out.uuidCount + PendingUUIDs <= MaxRows
        /\ payments' = out.payments
        /\ Settle(r, out)
        /\ UNCHANGED <<env, now, hook>>

----------------------------------------------------------------------------
(* The client status hook: usePaymentStatus of                             *)
(* src/src/app/mypages/hooks/index.payment.status.hook.ts.  A call of      *)
(* fetchPaymentStatus runs in four pieces, one up to each await; the state *)
(* of the hook is what the component sees between the pieces.              *)

\* a JavaScript boolean in a JSON body
Bool(b) == [b |-> b, type |-> "boolean"]

\* what fetch and response.json().catch(() => null) hand to the hook
HttpResponse(ok, data) == [ok |-> ok, data |-> data]

\* the answer `out` of the status endpoint as it reaches the browser
StatusResponse(out) ==
        HttpResponse(out.code \in 200..299,
            [type |-> "object", isSubscribed |-> Bool(out.isSubscribed),
             transactionKey |-> out.transactionKey,
             checklist |-> [type |-> "array"],
             success |-> Bool(out.success),
             message |-> IF out.code # 200 THEN Str("failed")
                         ELSE IF out.isSubscribed THEN Str("Subscribed")
                         ELSE Str("Free")])

\* answers that do not come from the endpoint: a body that is no JSON, with
\* either kind of status, a JSON body without the field success, one whose
\* checklist is null, and one whose success is the number 1
ForeignResponses ==
    { HttpResponse(TRUE, JSNull), HttpResponse(FALSE, JSNull),
      HttpResponse(FALSE, [type |-> "object", isSubscribed |-> Bool(FALSE),
                           transactionKey |-> Undef, checklist |-> JSNull,
                           success |-> Bool(FALSE), message |-> Undef]),
      HttpResponse(TRUE, [type |-> "object", isSubscribed |-> Undef,
                          transactionKey |-> Undef, checklist |-> Undef,
                          success |-> Undef, message |-> Undef]),
      HttpResponse(TRUE, [type |-> "object", isSubscribed |-> Bool(TRUE),
                          transactionKey |-> Str("zz"), checklist |-> Undef,
                          success |-> Num(1), message |-> Undef]) }

\* the test of a value in a condition: every value is truthy but undefined,
\* null, false, 0, NaN and ""
Truthy(v) == v \notin {Undef, JSNull, Bool(FALSE), Num(0), NaN, Str("")}

EndedCall(how) == [pc |-> "done", ended |-> how]

\* the catch block without the reset of isSubscribed and transactionKey
HookCatch_KeepsStatus(h, c, message) ==
    [h EXCEPT !.error = Str(message), !.statusMessage = "Free",
              !.isLoading = FALSE, !.calls[c] = EndedCall("failure")]

\* catch (113-120) and finally (121-123)
HookCatch(h, c, message) ==
    [h EXCEPT !.error = Str(message), !.isSubscribed = FALSE,
              !.transactionKey = Undef, !.statusMessage = "Free",
              !.isLoading = FALSE, !.calls[c] = EndedCall("failure")]

\* lines 64-70: up to await supabase.auth.getSession(); getSupabaseClient
\* throws when the public configuration is missing
FetchStart(c) ==
    /\ hook.calls[c].pc = "idle"
    /\ \A d \in 1..(c - 1) : hook.calls[d].pc # "idle"
    /\ LET h == [hook EXCEPT !.isLoading = TRUE, !.error = JSNull]
       IN  hook' = IF getSupabaseClient(clients, env).threw
                   THEN HookCatch(h, c, "not defined")
                   ELSE [h EXCEPT !.calls[c] = [pc |-> "getSession"]]
    /\ clients' = getSupabaseClient(clients, env).clients
    /\ UNCHANGED <<env, now, ledger, payments, schedules, uuidCount, resp, requests>>

\* lines 70-90: the session arrives; up to await fetch(...)
AwaitSession(c, session) ==
    /\ hook.calls[c].pc = "getSession"
    /\ hook' = IF session.error \/ session.token = ""
               THEN HookCatch(hook, c, "no token")
               ELSE [hook EXCEPT !.calls[c] = [pc |-> "fetch", token |-> session.token]]
    /\ UNCHANGED <<env, now, ledger, payments, schedules, uuidCount, resp, clients, requests>>

\* the request of fetch(...) reaches the endpoint, which runs GET up to its
\* first await, or answers at once
FetchArrives(c) ==
    LET out == StatusReceive(StatusRequest(Header(TRUE, hook.calls[c].token),
                                           << >>, c))
    IN  /\ hook.calls[c].pc = "fetch"
        /\ clients' = out.clients
        /\ IF out.run.pc = "done"
           THEN /\ requests' = requests
                /\ hook' = [hook EXCEPT !.calls[c] =
                               [pc |-> "json", response |-> StatusResponse(out.run)]]
           ELSE /\ \E r \in Slots : requests[r] = Idle
                /\ requests' = [requests EXCEPT ![FreeSlot] = out.run]
                /\ hook' = [hook EXCEPT !.calls[c] = [pc |-> "served"]]
        /\ UNCHANGED <<env, now, ledger, payments, schedules, uuidCount, resp>>

\* the call the run in slot r awaits settles, the database ordering rows with
\* equal created_at as `tie` ranks them; the run was sent by a call of the
\* hook, which gets the response when the run ends
FetchServed(r, ok, tie) ==
    LET out == StatusPiece(requests[r], ok, tie)
        c   == requests[r].caller
    IN  /\ requests[r].kind = "status"
        /\ requests[r].caller # 0
        /\ tie \in TiesAt(requests[r])
        /\ IF out.run.pc = "done"
           THEN /\ requests' = [requests EXCEPT ![r] = Idle]
                /\ hook' = [hook EXCEPT !.calls[c] =
                               [pc |-> "json", response |-> StatusResponse(out.run)]]
           ELSE /\ requests' = [requests EXCEPT ![r] = out.run]
                /\ hook' = hook
        /\ UNCHANGED <<env, now, ledger, payments, schedules, uuidCount, resp,
                       clients>>

\* lines 84-92: fetch settles with something that is no answer of the
\* endpoint; up to await response.json()
AwaitFetch(c, outcome) ==
    /\ hook.calls[c].pc = "fetch"
    /\ hook' = IF outcome.kind = "rejects"
               THEN HookCatch(hook, c, "Failed to fetch")
               ELSE [hook EXCEPT !.calls[c] =
                        [pc |-> "json", response |-> outcome.response]]
    /\ UNCHANGED <<env, now, ledger, payments, schedules, uuidCount, resp,
                   clients, requests>>

\* lines 92-123: the body is read; the state is set and the call ends
AwaitJson(c) ==
    /\ hook.calls[c].pc = "json"
    /\ LET response == hook.calls[c].response
           data     == response.data
           isObject == data.type = "object"
           h        == [hook EXCEPT !.checklist =
                           IF isObject /\ data.checklist \notin {Undef, JSNull}
                           THEN "steps" ELSE "empty"]
       IN  hook' = IF ~response.ok \/ ~isObject \/ ~Truthy(data.success)
                   THEN HookCatch(h, c, "fetchFailed")
                   ELSE [h EXCEPT !.isSubscribed = data.isSubscribed.b,
                                  !.transactionKey = data.transactionKey,
                                  !.statusMessage =
                                      IF data.message \notin {Undef, JSNull}
                                      THEN data.message.s
                                      ELSE IF Truthy(data.isSubscribed)
                                      THEN "Subscribed"
                                      ELSE "Free",
                                  !.isLoading = FALSE,
                                  !.calls[c] = EndedCall("success")]
    /\ UNCHANGED <<env, now, ledger, payments, schedules, uuidCount, resp, clients, requests>>

\* the pieces of a call that run once what they await has settled.
\* supabase.auth.getSession() gives an error, no session, or a session with
\* its access token (t-bad is a token the server no longer accepts); a
\* request that does not reach the endpoint rejects, or something else
\* answers it
HookAdvance ==
    \/ \E c \in 1..MaxCalls :
          \/ \E session \in { [error |-> TRUE,  token |-> ""],
                               [error |-> FALSE, token |-> ""],
                               [error |-> FALSE, token |-> "t-u1"],
                               [error |-> FALSE, token |-> "t-bad"] } :
                AwaitSession(c, session)
          \/ AwaitFetch(c, [kind |-> "rejects"])
          \/ \E r \in ForeignResponses :
                AwaitFetch(c, [kind |-> "foreign", response |-> r])
          \/ FetchArrives(c)
          \/ AwaitJson(c)
    \/ \E r \in Slots, ok \in BOOLEAN, tie \in TieOrders : FetchServed(r, ok, tie)

----------------------------------------------------------------------------
(* The world moves *)

\* the gateway charges a schedule that is due: the charge gets the payment id
\* the schedule was registered under and the schedule's payment data
GatewayFire(s) ==
    /\ resp.kind = "none"
    /\ s \in schedules
    /\ TLeq(s.timeToPay, now)
    /\ ~HasPayment(s.paymentId)
    /\ payments' = payments \cup
         {[amount |-> Num(s.amount), key |-> s.paymentId, paymentId |-> Undef,
           id |-> Str(s.paymentId), billingKey |-> s.billingKey,
           orderName |-> s.orderName, customerId |-> s.customerId,
           customData |-> s.customData]}
    /\ schedules' = schedules \ {s}
    /\ UNCHANGED <<env, now, ledger, uuidCount, resp, hook, clients, requests>>

\* time passes between requests, up to the next instant at which something
\* changes: a charge falls due, a grace period is in its last millisecond or
\* has just ended; no request stays in flight over a period's boundary
Tick ==
    /\ resp.kind = "none"
    /\ NoneRunning
    /\ \E i \in DOMAIN ledger :
       \E t \in { ledger[i].next_schedule_at, ledger[i].end_grace_at,
                  PlusMs(ledger[i].end_grace_at, 1) } :
          /\ TLt(now, t)
          /\ t.day <= StartDay + Horizon
          /\ now' = t
    /\ UNCHANGED <<env, ledger, payments, schedules, uuidCount, resp, hook, clients, requests>>

\* a millisecond passes between a status query's reading of the clock
\* (Date.now(), line 123) and the arrival of its rows; the model lets the
\* first millisecond of a second of the first day pass so
Millisecond ==
    /\ resp.kind = "none"
    /\ \E r \in Slots :
          /\ requests[r].kind = "status"
          /\ requests[r].pc = "query"
          /\ requests[r].at = now
    /\ now.day = StartDay
    /\ now.ms % MsPerSecond = 0
    /\ now' = PlusMs(now, 1)
    /\ UNCHANGED <<env, ledger, payments, schedules, uuidCount, resp, hook, clients, requests>>

\* the response has gone out to the caller; the server takes the next request
ResponseSent ==
    /\ resp.kind # "none"
    /\ resp' = [kind |-> "none"]
    /\ UNCHANGED <<env, now, ledger, payments, schedules, uuidCount, hook, clients, requests>>

----------------------------------------------------------------------------

\* the gateway delivers a notification (anyone may post one: the endpoint
\* asks for no credential)
WebhookDelivery ==
    \/ \E pid \in {p.key : p \in FirstCharges} \cup {UUIDs[i] : i \in 1..MaxRows},
          st \in {"Paid", "Cancelled"} :
          POST(TRUE, WebhookBody(Str(pid), Str(st)))
    \/ POST(TRUE, WebhookBody(Str("p1"), Str("Ready")))

\* a call a webhook run awaits settles: every call to the gateway is
\* answered 2xx, and the draw of Math.random() is one that TimeClip rounds
WebhookServed == \E r \in Slots : POSTResume(r, TRUE, Draw(0, 1))

\* a call a status query awaits settles; the query of the table may fail
StatusServed == \E r \in Slots, ok \in BOOLEAN : GETResume(r, ok)

\* a schedule that is due is charged
GatewayCharge == \E s \in schedules : GatewayFire(s)

Next ==
    \/ Tick
    \/ GatewayCharge
    \/ WebhookDelivery
    \/ WebhookServed
    \/ ResponseSent

Spec == Init /\ [][Next]_vars

----------------------------------------------------------------------------
(* The status endpoint beside the webhook *)

InitStatus ==
    /\ env = Configured
    /\ now = Instant(StartDay, 30 * MsPerMinute)
    /\ ledger = << >>
    /\ payments = FirstCharges
    /\ schedules = {}
    /\ uuidCount = 0
    /\ hook = usePaymentStatus
    /\ clients = NoClients
    /\ resp = [kind |-> "none"]
    /\ requests = NoRequests

\* the notifications delivered while status is queried are those of the
\* first charge of u1 and of its first renewal, and the first charge of u2
\* as paid; the queries are those of u1, and one without a credential
NextStatus ==
    \/ Tick
    \/ Millisecond
    \/ GatewayCharge
    \/ \E pid \in {"p1", UUIDs[1]}, st \in {"Paid", "Cancelled"} :
          POST(TRUE, WebhookBody(Str(pid), Str(st)))
    \/ POST(TRUE, WebhookBody(Str("p2"), Str("Paid")))
    \/ WebhookServed
    \/ \E header \in {Header(TRUE, "t-u1"), NoHeader} : GET(header)
    \/ StatusServed
    \/ ResponseSent

SpecStatus == InitStatus /\ [][NextStatus]_vars

----------------------------------------------------------------------------

\* a call a webhook run awaits settles; a call to the gateway may fail, and
\* the run ends with the first that does
WebhookAnswered ==
    \E r \in Slots, ok \in BOOLEAN : POSTResume(r, ok, LeastDraw)

----------------------------------------------------------------------------
(* The period and schedule arithmetic over the hours of the day *)

\* the clock starts at any hour of a day, or at an instant around 15:00
\* UTC (local midnight) or around UTC midnight
InitTime ==
    /\ env = Configured
    /\ now \in {Instant(StartDay, h * MsPerHour) : h \in 0..23}
              \cup { Instant(StartDay, 1), Instant(StartDay, 15 * MsPerHour - 1),
                     Instant(StartDay, 15 * MsPerHour + 1),
                     Instant(StartDay, MsPerDay - 1) }
    /\ ledger = << >>
    /\ payments = FirstCharges
    /\ schedules = {}
    /\ uuidCount = 0
    /\ hook = usePaymentStatus
    /\ clients = NoClients
    /\ resp = [kind |-> "none"]
    /\ requests = NoRequests

\* a notification for the first charge of u1
TimedDelivery ==
    \E st \in {"Paid", "Cancelled"} : POST(TRUE, WebhookBody(Str("p1"), Str(st)))

\* a call a webhook run awaits settles: every call to the gateway is
\* answered 2xx, and Math.random() gives any of the draws
WebhookDrawn == \E r \in Slots, x \in RandomDraws : POSTResume(r, TRUE, x)

NextTime ==
    \/ TimedDelivery
    \/ WebhookDrawn
    \/ ResponseSent

SpecTime == InitTime /\ [][NextTime]_vars

----------------------------------------------------------------------------
(* The status resolver over any rows of one user *)

\* the rows the table may hold for u1: any of four transaction keys, one of
\* them empty, either status, written at one of two instants; all of them
\* with a period that holds the instant of the query
GroupRow(key, st, createdAt) ==
    LET startAt == Instant(StartDay - 1, 0)
        endAt   == addDays(startAt, PeriodDays)
    IN  [amount           |-> IF st = "Paid" THEN 9900 ELSE -9900,
         user_id          |-> "u1",
         created_at       |-> createdAt,
         transaction_key  |-> key,
         status           |-> st,
         start_at         |-> startAt,
         end_at           |-> endAt,
         end_grace_at     |-> buildEndGraceAt(endAt),
         next_schedule_at |-> buildNextScheduleAt(endAt, LeastDraw),
         next_schedule_id |-> "s1"]
GroupRows ==
    {GroupRow(key, st, createdAt) :
        key \in {"k1", "k2", "k3", ""}, st \in {"Paid", "Cancel"},
        createdAt \in {Instant(StartDay - 1, 0), Instant(StartDay - 1, 1)}}

RECURSIVE SeqsUpTo(_, _)
SeqsUpTo(S, n) ==
    IF n = 0 THEN {<< >>}
    ELSE LET shorter == SeqsUpTo(S, n - 1)
         IN  shorter \cup {Append(q, e) : q \in {r \in shorter : Len(r) = n - 1}, e \in S}

InitGroup ==
    /\ env = Configured
    /\ now = Instant(StartDay, 12 * MsPerHour)
    /\ ledger \in SeqsUpTo(GroupRows, MaxRows)
    /\ payments = FirstCharges
    /\ schedules = {}
    /\ uuidCount = 0
    /\ hook = usePaymentStatus
    /\ clients = NoClients
    /\ resp = [kind |-> "none"]
    /\ requests = NoRequests

NextGroup ==
    \/ \E header \in Headers : GET(header)
    \/ StatusServed
    \/ ResponseSent

SpecGroup == InitGroup /\ [][NextGroup]_vars

----------------------------------------------------------------------------
(* The status resolver at the ends of a period *)

\* a table of the status resolver at the ends of a period holds at most
\* BoundaryMaxRows rows
BoundaryMaxRows == 2

\* the instant of the query, and the periods [start_at, end_grace_at] around
\* it: ended a millisecond ago, ending now, running, starting now, starting
\* in a millisecond
BoundaryNow == Instant(StartDay, 12 * MsPerHour)
BoundaryPeriods ==
    LET before == addDays(BoundaryNow, -PeriodDays)
        after  == addDays(BoundaryNow, PeriodDays)
    IN  { <<before, PlusMs(BoundaryNow, -1)>>, <<before, BoundaryNow>>,
          <<before, after>>, <<BoundaryNow, after>>,
          <<PlusMs(BoundaryNow, 1), after>> }

\* the rows of key k1 the table may hold for u1
BoundaryRows ==
    { [GroupRow("k1", st, createdAt) EXCEPT !.start_at = period[1],
                                            !.end_grace_at = period[2]] :
        st \in {"Paid", "Cancel"}, createdAt \in {Instant(StartDay - 1, 0), Instant(StartDay - 1, 1)},
        period \in BoundaryPeriods }

InitBoundary ==
    /\ env = Configured
    /\ now = BoundaryNow
    /\ ledger \in SeqsUpTo(BoundaryRows, BoundaryMaxRows) \ {<< >>}
    /\ payments = FirstCharges
    /\ schedules = {}
    /\ uuidCount = 0
    /\ hook = usePaymentStatus
    /\ clients = NoClients
    /\ resp = [kind |-> "none"]
    /\ requests = NoRequests

SpecBoundary == InitBoundary /\ [][NextGroup]_vars

----------------------------------------------------------------------------
(* The webhook, the status endpoint and the cancellation endpoint side by   *)
(* side                                                                    *)

\* the callers of the status and cancellation endpoints: u1, one whose token
\* is no session's, and one without a credential
FrameHeaders == {Header(TRUE, "t-u1"), Header(TRUE, "t-bad"), NoHeader}

\* a call a cancellation request awaits settles; the gateway accepts or fails
CancelAccepted ==
    \E r \in Slots, answer \in {GatewayAnswer(200, ""), GatewayAnswer(500, "")} :
        CancelResume(r, answer)

\* notifications of the first charge of u1 and of its first renewal; status
\* queries; cancellation requests for the first charge of u1, for its first
\* renewal, and a malformed one
NextFrame ==
    \/ \E body \in {WebhookBody(Str("p1"), Str("Paid")),
                     WebhookBody(Str("p1"), Str("Cancelled")),
                     WebhookBody(Str(UUIDs[1]), Str("Paid"))} :
          POST(TRUE, body)
    \/ WebhookServed
    \/ \E header \in FrameHeaders : GET(header)
    \/ StatusServed
    \/ \E header \in FrameHeaders,
          body \in {CancelBody(Str("p1")), CancelBody(Str(UUIDs[1])),
                    CancelBody(Undef)} :
          CancelPOST(header, TRUE, body)
    \/ CancelAccepted
    \/ ResponseSent

SpecFrame == InitFrame /\ [][NextFrame]_vars

----------------------------------------------------------------------------
(* The webhook handler when a later step of a run fails *)

\* charges the gateway holds without a billing key, without an order name,
\* without a customer id, with an amount that is no number, without custom
\* data, with custom data whose user_id is empty
DefectiveCharges ==
    { [amount |-> Num(9900), key |-> "p3", paymentId |-> Undef,
       id |-> Str("p3"), billingKey |-> "", orderName |-> "sub",
       customerId |-> "c1", customData |-> Str("u1")],
      [amount |-> Num(9900), key |-> "p4", paymentId |-> Undef,
       id |-> Str("p4"), billingKey |-> "bk1", orderName |-> "",
       customerId |-> "c1", customData |-> Str("u1")],
      [amount |-> Num(9900), key |-> "p5", paymentId |-> Undef,
       id |-> Str("p5"), billingKey |-> "bk1", orderName |-> "sub",
       customerId |-> "", customData |-> Str("u1")],
      [amount |-> [total |-> Str("abc"), type |-> "object"],
       key |-> "p6", paymentId |-> Undef, id |-> Str("p6"),
       billingKey |-> "bk1", orderName |-> "sub", customerId |-> "c1",
       customData |-> Str("u1")],
      [amount |-> Num(9900), key |-> "p7", paymentId |-> Undef,
       id |-> Str("p7"), billingKey |-> "bk1", orderName |-> "sub",
       customerId |-> "c1", customData |-> Undef],
      [amount |-> Num(9900), key |-> "p8", paymentId |-> Undef,
       id |-> Str("p8"), billingKey |-> "bk1", orderName |-> "sub",
       customerId |-> "c1",
       customData |-> [type |-> "object", user_id |-> Str("")]] }

InitFail ==
    /\ env \in EnvConfigs
    /\ now = Instant(StartDay, 30 * MsPerMinute)
    /\ ledger = << >>
    /\ payments = FirstCharges \cup DefectiveCharges
    /\ schedules = {}
    /\ uuidCount = 0
    /\ hook = usePaymentStatus
    /\ clients = NoClients
    /\ resp = [kind |-> "none"]
    /\ requests = NoRequests

\* a notification for the first charge of u1 or for one of the defective
\* charges is delivered; or one arrives with a body that
\* validateRequestBody turns down (null, no payment_id, an empty one, one
\* that is a number, no status, a status the handler does not know), or with
\* a body that is no JSON
NextFail ==
    \/ \E pid \in {"p1"} \cup {p.key : p \in DefectiveCharges},
          st \in {"Paid", "Cancelled"} :
          POST(TRUE, WebhookBody(Str(pid), Str(st)))
    \/ \E body \in { JSNull, WebhookBody(Undef, Str("Paid")),
                      WebhookBody(Str(""), Str("Paid")),
                      WebhookBody(Num(1), Str("Cancelled")),
                      WebhookBody(Str("p1"), Undef),
                      WebhookBody(Str("p1"), Str("Ready")) } :
          POST(TRUE, body)
    \/ POST(FALSE, JSNull)
    \/ WebhookAnswered
    \/ ResponseSent

SpecFail == InitFail /\ [][NextFail]_vars

----------------------------------------------------------------------------
(* The status hook of one page while the webhook writes the ledger *)

InitHook ==
    /\ env \in {e \in EnvConfigs : e.apiSecret}
    /\ now = Instant(StartDay, 30 * MsPerMinute)
    /\ ledger = << >>
    /\ payments = FirstCharges
    /\ schedules = {}
    /\ uuidCount = 0
    /\ hook = usePaymentStatus
    /\ clients = NoClients
    /\ resp = [kind |-> "none"]
    /\ requests = NoRequests

\* useEffect calls fetchPaymentStatus on mount; refetch calls it again
NextHook ==
    \/ \E c \in 1..MaxCalls : FetchStart(c)
    \/ HookAdvance
    \/ TimedDelivery
    \/ WebhookServed
    \/ ResponseSent

\* whatever a call awaits settles, and the effect of the mount runs
SpecHook ==
    /\ InitHook /\ [][NextHook]_vars
    /\ WF_vars(HookAdvance) /\ WF_vars(FetchStart(1))

----------------------------------------------------------------------------
(* The endpoints of a server whose configuration changes between requests:
   each request reads process.env anew *)

\* the server is restarted with another configuration; the ledger and the
\* gateway keep what they hold
Redeploy ==
    /\ resp.kind = "none"
    /\ NoneRunning
    /\ \E e \in EnvConfigs : e # env /\ env' = e
    /\ clients' = NoClients    \* the new process loads the module anew
    /\ UNCHANGED <<now, ledger, payments, schedules, uuidCount, resp, hook, requests>>

\* cancellation requests for the first charge of u1, with a blank key, with
\* a body that is no object, and with a body that is no JSON, each with every
\* credential; the gateway accepts or fails
NextConfig ==
    \/ WebhookDelivery
    \/ WebhookServed
    \/ \E header \in Headers :
          \/ \E body \in {CancelBody(Str("p1")), CancelBody(Str(" ")), JSNull} :
                CancelPOST(header, TRUE, body)
          \/ CancelPOST(header, FALSE, JSNull)
    \/ CancelAccepted
    \/ Redeploy
    \/ ResponseSent

SpecConfig == InitFrame /\ [][NextConfig]_vars

----------------------------------------------------------------------------
(* The cached client accessors of src/lib/supabase, called in one process  *)
(* whose environment is set and unset while it runs                        *)

ClientEnvs ==
    [apiSecret : BOOLEAN, supabaseUrl : {"unset", "", "set"},
     publicUrl : BOOLEAN, serviceRoleKey : BOOLEAN, anonKey : BOOLEAN,
     tz : {0}]

InitClient ==
    /\ env \in ClientEnvs
    /\ now = Instant(StartDay, 30 * MsPerMinute)
    /\ ledger = << >>
    /\ payments = FirstCharges
    /\ schedules = {}
    /\ uuidCount = 0
    /\ hook = usePaymentStatus
    /\ clients = NoClients
    /\ resp = [kind |-> "none"]
    /\ requests = NoRequests

\* what resp holds of a call of an accessor
ClientCall(which, got) ==
    /\ resp.kind = "none"
    /\ got.clients.anonMade <= MaxClients
    /\ got.clients.serviceMade <= MaxClients
    /\ clients' = got.clients
    /\ resp' = [value |-> got.value, threw |-> got.threw,
                readEnv |-> got.readEnv, kind |-> "client", which |-> which]
    /\ UNCHANGED <<env, now, ledger, payments, schedules, uuidCount, hook, requests>>

\* a configuration value is supplied or removed: process.env is read when an
\* accessor finds its cache empty
SetEnv ==
    /\ resp.kind = "none"
    /\ \E e \in ClientEnvs : e # env /\ env' = e
    /\ UNCHANGED <<now, ledger, payments, schedules, uuidCount, resp, hook, clients, requests>>

\* besides the calls as such, the process serves requests for the status,
\* each of which takes the service client
NextClient ==
    \/ ClientCall("anon", getSupabaseClient(clients, env))
    \/ ClientCall("service", getSupabaseServiceRoleClient(clients, env))
    \/ \E header \in Headers : GET(header)
    \/ StatusServed
    \/ SetEnv
    \/ ResponseSent

SpecClient == InitClient /\ [][NextClient]_vars

----------------------------------------------------------------------------
(* The three route modules of the webhook on one server *)

\* the charge the gateway holds without custom data
ChargesWithoutCustomData == {p \in DefectiveCharges : p.customData = Undef}

\* a charge of u1 that the gateway answers with the field paymentId beside id
ChargesWithPaymentId ==
    { [amount |-> Num(9900), key |-> "p9", paymentId |-> Str("p9"),
       id |-> Str("p9"), billingKey |-> "bk1", orderName |-> "sub",
       customerId |-> "c1", customData |-> Str("u1")] }

\* the server runs on UTC or on local civil time (UTC+9)
InitWebhooks ==
    /\ env \in {Configured, [Configured EXCEPT !.tz = KSTOffsetHours]}
    /\ now = Instant(StartDay, 30 * MsPerMinute)
    /\ ledger = << >>
    /\ payments = FirstCharges \cup ChargesWithoutCustomData
                               \cup ChargesWithPaymentId
    /\ schedules = {}
    /\ uuidCount = 0
    /\ hook = usePaymentStatus
    /\ clients = NoClients
    /\ resp = [kind |-> "none"]
    /\ requests = NoRequests

\* a call a run of an earlier webhook awaits settles: every call is answered
\* without error, and Math.random() gives the greatest draw
WebhookServed_Earlier ==
    \E r \in Slots : POSTResume_Earlier(r, TRUE, GreatestDraw)

\* the notifications of the first charge of u1, of the charge without
\* custom data and of the charge answered with paymentId are delivered to
\* any of the modules
NextWebhooks ==
    \/ Tick
    \/ \E pid \in {"p1"} \cup {p.key : p \in ChargesWithoutCustomData
                                              \cup ChargesWithPaymentId},
          st \in {"Paid", "Cancelled"} :
          \/ POST(TRUE, WebhookBody(Str(pid), Str(st)))
          \/ \E file \in EarlierWebhooks :
                POST_Earlier(file, TRUE, WebhookBody(Str(pid), Str(st)))
    \/ WebhookServed
    \/ WebhookServed_Earlier
    \/ ResponseSent

SpecWebhooks == InitWebhooks /\ [][NextWebhooks]_vars

----------------------------------------------------------------------------
(* The three route modules of the status endpoint beside the webhook *)

\* the query an earlier status resolver awaits settles; it may fail
StatusServed_Earlier ==
    \E r \in Slots, ok \in BOOLEAN : GETResume_Earlier(r, ok)

\* the notifications delivered are those of the first charge of u1, to
\* part_004 and, as paid, to portone/route.ts, and of the first charge of u2
\* as paid; the queries are those of u1 and of a caller without a credential
NextResolvers ==
    \/ Tick
    \/ \E st \in {"Paid", "Cancelled"} :
          POST(TRUE, WebhookBody(Str("p1"), Str(st)))
    \/ POST(TRUE, WebhookBody(Str("p2"), Str("Paid")))
    \/ POST_Earlier("portone/route.ts", TRUE, WebhookBody(Str("p1"), Str("Paid")))
    \/ WebhookServed
    \/ WebhookServed_Earlier
    \/ \E header \in {Header(TRUE, "t-u1"), NoHeader} :
          \/ GET(header)
          \/ \E file \in EarlierResolvers : GET_Earlier(file, header)
    \/ StatusServed
    \/ StatusServed_Earlier
    \/ ResponseSent

SpecResolvers == InitStatus /\ [][NextResolvers]_vars

----------------------------------------------------------------------------
(* The two route modules of the cancellation endpoint over the ledgers the *)
(* webhook writes                                                          *)

\* the callers of the cancellation endpoint: u1, u2, one whose token is no
\* session's, and one without a credential
CancelHeaders ==
    {Header(TRUE, "t-u1"), Header(TRUE, "t-u2"), Header(TRUE, "t-bad"), NoHeader}

\* the Paid notifications of the first charges are delivered; cancellation
\* requests arrive at either module, with a body that is no JSON among them;
\* the gateway gives any of its answers, or the fetch rejects
NextCancels ==
    \/ \E p \in FirstCharges : POST(TRUE, WebhookBody(Str(p.key), Str("Paid")))
    \/ WebhookServed
    \/ \E header \in CancelHeaders, body \in CancelBodies :
          \/ CancelPOST(header, TRUE, body)
          \/ CancelPOST_Earlier(header, TRUE, body)
    \/ CancelPOST(NoHeader, FALSE, JSNull)
    \/ CancelPOST_Earlier(NoHeader, FALSE, JSNull)
    \/ \E r \in Slots, answer \in CancelChargeAnswers \cup {FetchRejected} :
          \/ CancelResume(r, answer)
          \/ CancelResume_Earlier(r, answer)
    \/ ResponseSent

SpecCancels == InitStatus /\ [][NextCancels]_vars

----------------------------------------------------------------------------
(* The two route modules of the first-charge endpoint, and the webhook     *)
(* recording a charge made through them                                    *)

\* requests arrive at either module, with a body that is no JSON among them;
\* the auth server and the gateway answer or fail; the Paid notification of
\* the first charge made is delivered
NextCharges ==
    \/ \E header \in FrameHeaders, body \in ChargeBodies :
          \/ ChargePOST(header, TRUE, body)
          \/ ChargePOST_Earlier(header, TRUE, body)
    \/ ChargePOST(NoHeader, FALSE, JSNull)
    \/ ChargePOST_Earlier(NoHeader, FALSE, JSNull)
    \/ \E r \in Slots, ok \in BOOLEAN :
          \/ ChargeResume(r, ok)
          \/ ChargeResume_Earlier(r, ok)
    \/ POST(TRUE, WebhookBody(Str(UUIDs[1]), Str("Paid")))
    \/ WebhookServed
    \/ ResponseSent

SpecCharges == InitStatus /\ [][NextCharges]_vars

----------------------------------------------------------------------------
(* Renewal: the charges the gateway makes from the schedules the handlers  *)
(* register, on a server that has served portone/route.ts and part_004     *)

\* time passes up to the instant the next charge of a row falls due
ChainTick ==
    /\ resp.kind = "none"
    /\ \E i \in DOMAIN ledger :
          /\ TLt(now, ledger[i].next_schedule_at)
          /\ ledger[i].next_schedule_at.day <= StartDay + ChainHorizon
          /\ now' = ledger[i].next_schedule_at
    /\ UNCHANGED <<env, ledger, payments, schedules, uuidCount, resp, hook, clients, requests>>

\* the gateway delivers the Paid notification of a charge it holds, a first
\* charge or one it made from a schedule, to the module that serves the
\* webhook at the time
PaidDelivery ==
    \E p \in payments :
        \/ POST(TRUE, WebhookBody(Str(p.key), Str("Paid")))
        \/ POST_Earlier("portone/route.ts", TRUE, WebhookBody(Str(p.key), Str("Paid")))

\* a call a webhook run awaits settles, answered without error
PaidServed ==
    \/ WebhookServed
    \/ \E r \in Slots : POSTResume_Earlier(r, TRUE, LeastDraw)

NextRenewal ==
    \/ ChainTick
    \/ GatewayCharge
    \/ PaidDelivery
    \/ PaidServed
    \/ ResponseSent

\* time passes, the gateway charges what is due and delivers its
\* notifications, every call settles and responses go out
SpecRenewal ==
    /\ InitStatus /\ [][NextRenewal]_vars
    /\ WF_vars(ChainTick) /\ WF_vars(GatewayCharge)
    /\ WF_vars(PaidDelivery) /\ WF_vars(PaidServed) /\ WF_vars(ResponseSent)
----------------------------------------------------------------------------
(* Properties.  The vocabulary they are stated in. *)

Rows == DOMAIN ledger

\* row i has the greatest created_at among the rows of its transaction_key
\* (of rows written within one millisecond the later one is the greater)
IsLatestOfKey(table, i) ==
    \A j \in DOMAIN table :
        table[j].transaction_key = table[i].transaction_key
            => \/ TLt(table[j].created_at, table[i].created_at)
               \/ (table[j].created_at = table[i].created_at /\ j <= i)

\* row i is an active row of user u at instant t
IsActiveRow(table, i, u, t) ==
    /\ table[i].user_id = u
    /\ table[i].status = "Paid"
    /\ IsLatestOfKey(table, i)
    /\ TLeq(table[i].start_at, t)
    /\ TLeq(t, table[i].end_grace_at)

ActiveKeys(table, u, t) ==
    {table[i].transaction_key : i \in {k \in DOMAIN table : IsActiveRow(table, k, u, t)}}

\* the last response is that of the webhook handler to a well-formed
\* notification of status st
IsWebhookResponse(st) ==
    /\ resp.kind = "webhook"
    /\ resp.json
    /\ validateRequestBody(resp.body) # JSNull
    /\ resp.body.status.s = st

\* the custom data is neither a non-empty string nor an object whose user_id
\* is a non-empty string
NoUserId(customData) ==
    /\ ~(customData.type = "string" /\ customData.s # "")
    /\ ~(customData.type = "object" /\ customData.user_id.type = "string"
           /\ customData.user_id.s # "")

\* the user the credential of the header belongs to, "" when it is absent or
\* no session's
CredentialUser(header) == getUserIdFromSession(header, TRUE)

\* the user a response of the status endpoint was made for: the one the
\* handler resolved, or, where the handler resolves none, the one whose
\* credential the request carried
Caller(r) == IF r.file = "part_008" THEN r.userId ELSE CredentialUser(r.header)

\* the rows of user u that have the greatest created_at among the rows of u
\* with their transaction key; a row without user, or without key, is in no
\* group
NewestRows(table, u) ==
    {i \in DOMAIN table :
        /\ u # NullUserId
        /\ table[i].user_id = u
        /\ table[i].transaction_key # ""
        /\ \A j \in DOMAIN table :
              (table[j].user_id = u
                 /\ table[j].transaction_key = table[i].transaction_key)
                  => TLeq(table[j].created_at, table[i].created_at)}

\* the rows that can make user u subscribed at instant t: a row with the
\* greatest created_at of a group of u, Paid, with start_at <= t <=
\* end_grace_at
ActiveGroupRows(table, u, t) ==
    {i \in NewestRows(table, u) : IsActivePayment(table[i], t)}

\* the response of the status endpoint of route module `file` to a query
\* with this header at instant nowMs over the rows of `table`, the auth
\* server and the database answering, the database ordering rows with equal
\* created_at as `tie` ranks them
StatusOver(file, header, nowMs, table, tie) ==
    LET c == [StatusRequest(header, << >>, 0) EXCEPT
                 !.file = file, !.at = nowMs,
                 !.userId = IF file = "part_008" THEN CredentialUser(header)
                            ELSE ""]
    IN  IF file = "part_008" THEN AfterQuery(c, table, TRUE, tie)
        ELSE AfterQuery_Earlier(c, table, TRUE, tie)

\* C1: after the webhook handler answers with success a Paid notification of
\* a payment whose custom data identifies user u, the ledger holds the Paid
\* row the run wrote, of user u and with the payment's transaction key; and a
\* status query for u at an instant within [start_at, end_grace_at] of a Paid
\* row of u gets isSubscribed = true and the transaction key of an active row
\* of u, which is the key of that row when u has one active group.
C1_PaidThenSubscribed ==
    /\ (IsWebhookResponse("Paid") /\ resp.success
          /\ ~NoUserId(PaymentOf(resp.body.payment_id.s).customData)) =>
          LET payment == PaymentOf(resp.body.payment_id.s)
          IN  /\ resp.row \in Rows
              /\ ledger[resp.row].status = "Paid"
              /\ ledger[resp.row].transaction_key = payment.id.s
              /\ ledger[resp.row].user_id = extractUserId(payment.customData).s
    /\ (resp.kind = "status" /\ resp.code = 200 /\ Caller(resp) # "") =>
          LET u      == Caller(resp)
              active == ActiveGroupRows(ledger, u, resp.at)
          IN  \A i \in Rows :
                  (ledger[i].user_id = u /\ IsActivePayment(ledger[i], resp.at)) =>
                      /\ resp.isSubscribed
                      /\ \E k \in active :
                            resp.transactionKey = Str(ledger[k].transaction_key)
                      /\ (\A k \in active : ledger[k].transaction_key
                                               = ledger[i].transaction_key)
                            => resp.transactionKey = Str(ledger[i].transaction_key)

\* C2: once the webhook handler has answered with success a Cancelled
\* notification for the transaction key that the status query of user u last
\* surfaced, the next status query of u returns isSubscribed = false.
C2_CancelThenUnsubscribed ==
    (/\ resp.kind = "status" /\ resp.code = 200
     /\ resp.after # << >>
     /\ resp.after[2] # << >>
     /\ resp.after[2][1] = resp.userId
     /\ resp.after[2][2] = Str(resp.after[1])
     /\ \E i \in Rows :
           /\ ledger[i].transaction_key = resp.after[1]
           /\ ledger[i].status = "Cancel"
           /\ IsLatestOfKey(ledger, i))
        => ~resp.isSubscribed

\* C3: when the webhook handler has answered a Cancelled notification, no
\* call having failed, for a transaction key of which the ledger had a row
\* before the notification arrived, the run has appended exactly one row:
\* status Cancel, the amount negated, and transaction_key, user_id, start_at,
\* end_at, end_grace_at, next_schedule_at and next_schedule_id those of a row
\* that had the greatest created_at of that key when the handler read the
\* ledger.
C3_ReversalCopiesLatest ==
    (/\ IsWebhookResponse("Cancelled")
     /\ resp.gw = AllOk
     /\ HasPayment(resp.body.payment_id.s)
     /\ \E j \in Rows :
           /\ ledger[j].transaction_key = PaymentOf(resp.body.payment_id.s).id.s
           /\ TLt(ledger[j].created_at, resp.arrived)) =>
        LET key    == PaymentOf(resp.body.payment_id.s).id.s
            before == SubSeq(ledger, 1, resp.read)
        IN  /\ resp.row \in Rows
            /\ resp.row > resp.read
            /\ Cardinality({k \in DOMAIN resp.calls : resp.calls[k] = "insert"}) = 1
            /\ \E j \in DOMAIN before :
                  /\ before[j].transaction_key = key
                  /\ \A k \in DOMAIN before :
                        before[k].transaction_key = key
                            => TLeq(before[k].created_at, before[j].created_at)
                  /\ LET new == ledger[resp.row]
                         old == before[j]
                     IN  /\ new.status = "Cancel"
                         /\ new.amount = -old.amount
                         /\ new.transaction_key = old.transaction_key
                         /\ new.user_id = old.user_id
                         /\ new.start_at = old.start_at
                         /\ new.end_at = old.end_at
                         /\ new.end_grace_at = old.end_grace_at
                         /\ new.next_schedule_at = old.next_schedule_at
                         /\ new.next_schedule_id = old.next_schedule_id

\* C4: every Cancel row has a negative amount that is the negation of the
\* amount of a Paid row with the same transaction_key, and every Paid row has a
\* positive amount.
C4_SignedAmounts ==
    \A i \in Rows :
        /\ ledger[i].status = "Cancel" =>
              /\ ledger[i].amount < 0
              /\ \E j \in Rows :
                    /\ ledger[j].status = "Paid"
                    /\ ledger[j].transaction_key = ledger[i].transaction_key
                    /\ ledger[j].amount = -ledger[i].amount
        /\ ledger[i].status = "Paid" => ledger[i].amount > 0

\* the last response is that of the cancellation endpoint to a well-formed
\* request of an authenticated caller
IsCancelResponse ==
    /\ resp.kind = "cancel"
    /\ resp.json
    /\ validateCancelRequest(resp.body)
    /\ resp.userId # ""

\* the rows of the table owned by user u, in the order they were written
OwnRows(table, u) ==
    LET Own(row) == row.user_id = u
    IN  SelectSeq(table, Own)

\* the response of the cancellation endpoint of route module `file` to a
\* request served over the rows of `table`; auth and db say whether the auth
\* server and the database answer, and the gateway gives `answer` if it is
\* called
CancelOver(file, table, header, json, body, auth, db, answer) ==
    IF file = "cancel/route.ts"
    THEN LET first == CancelReceive(CancelRequestOf(header, json, body))
         IN  IF first.pc = "done" THEN first
             ELSE LET second == CancelAfterGetUser(first, auth).run
                  IN  IF second.pc = "done" THEN second
                      ELSE LET third == AfterLookup(second, table, db)
                           IN  IF third.pc = "done" THEN third
                               ELSE AfterCancelCharge(third, answer)
    ELSE LET first == CancelReceive_Earlier(
                          [CancelRequestOf(header, json, body) EXCEPT
                              !.file = file,
                              !.checklist = Checklist_Earlier(0)])
         IN  IF first.pc = "done" THEN first
             ELSE AfterCancelCharge_Earlier(first, answer)

\* the response is that of the cancellation endpoint to a well-formed request
\* that carries a valid credential of a user, the auth server and the
\* database answering
IsCredentialedCancel ==
    /\ resp.kind = "cancel"
    /\ resp.json
    /\ validateCancelRequest(resp.body)
    /\ CredentialUser(resp.header) # ""
    /\ resp.auth /\ resp.db

\* C5: a well-formed cancellation request with a valid credential of user A
\* for a transactionKey of which the ledger has rows, all of them of other
\* users, is answered 404 with success = false, and the gateway's cancel
\* operation is not called.
C5_ForeignKeyNotFound ==
    (/\ IsCredentialedCancel
     /\ \E i \in Rows : ledger[i].transaction_key = resp.body.transactionKey.s
     /\ \A i \in Rows : ledger[i].transaction_key = resp.body.transactionKey.s
                           => ledger[i].user_id # CredentialUser(resp.header))
        => /\ resp.code = 404
           /\ ~resp.success
           /\ resp.calls = << >>

\* C6: for an authenticated caller A and a well-formed request, the response
\* of the cancellation endpoint (status code, success flag, checklist) over
\* the ledger is the response over that ledger with the rows of every other
\* user taken out; and the response for a key of which the ledger has rows of
\* other users only is the response for a key that does not exist, which the
\* gateway, where it is asked, answers with PAYMENT_NOT_FOUND.
C6_InformationHiding ==
    IsCredentialedCancel =>
        LET A       == CredentialUser(resp.header)
            before  == IF resp.file = "cancel/route.ts"
                       THEN SubSeq(ledger, 1, resp.read) ELSE ledger
            View(r) == <<r.code, r.success, r.checklist>>
            answers == IF resp.answer = NoAnswer THEN CancelChargeAnswers
                       ELSE {resp.answer}
        IN  /\ \A answer \in answers :
                  View(resp) = View(CancelOver(resp.file, OwnRows(before, A),
                                               resp.header, TRUE, resp.body,
                                               resp.auth, resp.db, answer))
            /\ (/\ \E i \in DOMAIN before :
                      before[i].transaction_key = resp.body.transactionKey.s
                /\ \A i \in DOMAIN before :
                      before[i].transaction_key = resp.body.transactionKey.s
                         => before[i].user_id # A)
                 => View(resp) =
                      View(CancelOver(resp.file, before, resp.header, TRUE,
                                      CancelBody(Str("zz")), resp.auth, resp.db,
                                      GatewayAnswer(404, "PAYMENT_NOT_FOUND")))

\* C7: every Paid row has end_at = start_at + 30 days, and its end_grace_at
\* is 23:59:59 local civil time (UTC+9) of the local calendar day after the
\* local calendar day of end_at.
C7_PeriodComputation ==
    \A i \in Rows :
        ledger[i].status = "Paid" =>
            /\ ledger[i].end_at.day = ledger[i].start_at.day + PeriodDays
            /\ ledger[i].end_at.ms = ledger[i].start_at.ms
            /\ ledger[i].end_grace_at =
                   KSTInstant(KSTDay(ledger[i].end_at) + 1, 23, 59, 59)

\* C8: the next_schedule_at of every Paid row, which is
\* buildNextScheduleAt(end_at), is an instant t with L <= t < L + 1 hour,
\* where L is 10:00 local civil time (UTC+9) on the local calendar day of
\* end_at + 1 day.
C8_ScheduleWindow ==
    \A i \in Rows :
        ledger[i].status = "Paid" =>
            LET L == KSTInstant(KSTDay(PlusMs(ledger[i].end_at, MsPerDay)), 10, 0, 0)
            IN  /\ TLeq(L, ledger[i].next_schedule_at)
                /\ TLt(ledger[i].next_schedule_at, PlusMs(L, MsPerHour))

\* C9: every row of the ledger has end_at < next_schedule_at < end_at + 2 days.
C9_ScheduleAfterEnd ==
    \A i \in Rows :
        /\ TLt(ledger[i].end_at, ledger[i].next_schedule_at)
        /\ TLt(ledger[i].next_schedule_at, PlusMs(ledger[i].end_at, 2 * MsPerDay))

\* the ledger has a Paid row whose end_at is in the last millisecond of a UTC
\* day and whose next_schedule_at is the latest the draw allows, and a Cancel
\* row copied from it
C9_Witness ==
    \E i, j \in Rows :
        /\ ledger[i].status = "Paid"
        /\ ledger[i].end_at.ms = MsPerDay - 1
        /\ ledger[i].next_schedule_at.ms = 2 * MsPerHour
        /\ ledger[j].status = "Cancel"
        /\ ledger[j].next_schedule_at = ledger[i].next_schedule_at

\* C10: every row of the ledger has start_at < end_at < end_grace_at.
C10_PeriodOrdered ==
    \A i \in Rows :
        /\ TLt(ledger[i].start_at, ledger[i].end_at)
        /\ TLt(ledger[i].end_at, ledger[i].end_grace_at)

\* the ledger has a Paid row whose end_at is after 14:59:59 UTC (past local
\* midnight), and a Cancel row copied from it
C10_Witness ==
    \E i, j \in Rows :
        /\ ledger[i].status = "Paid"
        /\ ledger[i].end_at.ms > 15 * MsPerHour
        /\ ledger[j].status = "Cancel"
        /\ ledger[j].end_at = ledger[i].end_at
        /\ ledger[j].end_grace_at = ledger[i].end_grace_at

\* the rows of user u in the order of the status resolver's query, the
\* database ordering rows with equal created_at as `tie` ranks them
QueryRows(table, u, tie) ==
    OrderByCreatedAtDesc(table, {i \in DOMAIN table : table[i].user_id = u}, tie)

\* C11: for the rows of one user, all with a non-empty transaction key, in
\* whatever order the query gives rows with equal created_at, the grouping
\* step of the status resolver yields as many survivors as there are
\* distinct keys, one per key, each a row with the greatest created_at of its
\* group and, among the rows of the group with that created_at, the first in
\* the order of the query.
C11_GroupingSurvivors ==
    \A u \in Users, tie \in TieOrders :
        LET all       == QueryRows(ledger, u, tie)
            keys      == {all[i].transaction_key : i \in DOMAIN all}
            survivors == LatestPaymentsByGroup(all, GroupKeys(all, {}))
        IN  (\A i \in DOMAIN all : all[i].transaction_key # "") =>
              /\ Len(survivors) = Cardinality(keys)
              /\ \A k \in keys :
                    \E j \in DOMAIN survivors :
                        /\ survivors[j].transaction_key = k
                        /\ \A j2 \in DOMAIN survivors :
                              survivors[j2].transaction_key = k => j2 = j
                        /\ \E m \in DOMAIN all :
                              /\ all[m] = survivors[j]
                              /\ \A n \in DOMAIN all :
                                    all[n].transaction_key = k =>
                                        /\ TLeq(all[n].created_at, all[m].created_at)
                                        /\ all[n].created_at = all[m].created_at
                                              => m <= n

\* a status query of u1 has been answered over three rows of two keys, where
\* the two rows of k1 share their created_at and the one the query lists
\* first is Paid, the other Cancel, and the row of k2 is Cancel
C11_Witness ==
    /\ resp.kind = "status" /\ resp.code = 200 /\ resp.userId = "u1"
    /\ Len(ledger) = 3
    /\ ledger[1].transaction_key = "k1" /\ ledger[1].status = "Cancel"
    /\ ledger[2].transaction_key = "k1" /\ ledger[2].status = "Paid"
    /\ ledger[1].created_at = ledger[2].created_at
    /\ ledger[3].transaction_key = "k2" /\ ledger[3].status = "Cancel"
    /\ ledger[resp.rows[1]].status = "Paid"
    /\ resp.isSubscribed /\ resp.transactionKey = Str("k1")

\* row i is the latest row of its transaction key in the answer of a query
\* that gave the rows at the places `given`, in that order: the first of them
\* with that key
IsLatestGiven(table, given, i) ==
    \E m \in DOMAIN given :
        /\ given[m] = i
        /\ \A n \in DOMAIN given :
              table[given[n]].transaction_key = table[i].transaction_key
                  => m <= n

\* C12: a status query of a user whose only group has a Paid latest row is
\* answered isSubscribed = true exactly when start_at <= now <= end_grace_at:
\* true when now is start_at, true when now is end_grace_at, false a
\* millisecond before start_at and a millisecond after end_grace_at.
C12_BoundaryInclusion ==
    (resp.kind = "status" /\ resp.code = 200) =>
        \A i \in Rows :
            (/\ ledger[i].user_id = resp.userId
             /\ ledger[i].status = "Paid"
             /\ IsLatestGiven(ledger, resp.rows, i)
             /\ \A j \in Rows : ledger[j].user_id = resp.userId
                   => ledger[j].transaction_key = ledger[i].transaction_key) =>
                /\ resp.isSubscribed <=> (/\ TLeq(ledger[i].start_at, resp.at)
                                          /\ TLeq(resp.at, ledger[i].end_grace_at))
                /\ resp.at = ledger[i].start_at => resp.isSubscribed
                /\ resp.at = ledger[i].end_grace_at => resp.isSubscribed
                /\ resp.at = PlusMs(ledger[i].start_at, -1) => ~resp.isSubscribed
                /\ resp.at = PlusMs(ledger[i].end_grace_at, 1) => ~resp.isSubscribed

\* a status query of u1 has been answered at the very start_at of the Paid
\* latest row, with isSubscribed = true, over a table whose other row, an
\* older one, ended a millisecond before
C12_Witness ==
    /\ resp.kind = "status" /\ resp.code = 200 /\ resp.userId = "u1"
    /\ Len(ledger) = 2
    /\ ledger[2].status = "Paid"
    /\ ledger[2].start_at = resp.at
    /\ TLt(ledger[1].created_at, ledger[2].created_at)
    /\ ledger[1].end_grace_at = PlusMs(resp.at, -1)
    /\ resp.isSubscribed

\* C13: the status endpoint answers a caller who is a user isSubscribed =
\* true if and only if the caller has a transaction-key group whose latest
\* row is Paid with start_at <= now <= end_grace_at (a group whose latest row is Cancel does
\* not count, whatever its earlier rows; of rows of a group with the same,
\* greatest created_at either may be taken for the latest);
\* transactionKey is in the response exactly when isSubscribed is true, and
\* is then the key of such a group.
C13_SubscribedIffActiveGroup ==
    (resp.kind = "status" /\ resp.code = 200 /\ Caller(resp) # "") =>
        LET u      == Caller(resp)
            active == ActiveGroupRows(ledger, u, resp.at)
            sure   == {i \in active :
                          \A j \in NewestRows(ledger, u) :
                              ledger[j].transaction_key = ledger[i].transaction_key
                                  => j \in active}
        IN  /\ resp.isSubscribed => active # {}
            /\ sure # {} => resp.isSubscribed
            /\ resp.transactionKey # Undef <=> resp.isSubscribed
            /\ resp.isSubscribed =>
                  \E i \in active : resp.transactionKey = Str(ledger[i].transaction_key)

\* C14: in every step the rows the ledger held are still there, in their
\* places and with all their field values, and rows are only added after
\* them; a cancellation adds a row and leaves the Paid row it reverses as it
\* was.
C14_AppendOnly ==
    [][/\ Len(ledger') >= Len(ledger)
       /\ SubSeq(ledger', 1, Len(ledger)) = ledger]_vars

\* the webhook handler has just recorded a cancellation: the ledger holds the
\* Paid row of a key, written earlier, and after it the Cancel row of the key
\* that this run appended
C14_Witness ==
    /\ IsWebhookResponse("Cancelled")
    /\ resp.row \in Rows
    /\ ledger[resp.row].status = "Cancel"
    /\ \E i \in 1..resp.read :
          /\ ledger[i].transaction_key = ledger[resp.row].transaction_key
          /\ ledger[i].status = "Paid"
          /\ ledger[i].amount > 0
          /\ TLt(ledger[i].created_at, ledger[resp.row].created_at)

\* the route modules that serve the status endpoint
StatusFiles == EarlierResolvers \cup {"part_008"}

\* C15: a step that changes the ledger is a step of a run of the webhook
\* handler, the one that inserts: every step of a run of the status endpoint,
\* of the cancellation endpoint and of the first-charge endpoint, whatever
\* the run answers, leaves the ledger as it was; and a status query repeated
\* with the same credential at the same instant over the same ledger gets the
\* answer the first one got.
C15_OnlyWebhookWrites ==
    /\ [][/\ ledger' # ledger =>
                \E r \in Slots : /\ requests[r].kind = "webhook"
                                 /\ requests[r].pc = "insert"
                                 /\ requests'[r] # requests[r]
          /\ \A r \in Slots :
                (requests[r].kind \in {"status", "cancel", "charge"}
                    /\ requests'[r] # requests[r]) => ledger' = ledger
          /\ (resp'.kind \in {"status", "cancel", "charge"} /\ resp' # resp)
                => ledger' = ledger]_vars
    /\ []((resp.kind = "status" /\ resp.code = 200) =>
            \A file \in StatusFiles, tie \in TieOrders :
                LET again == StatusOver(file, resp.header, resp.at, ledger, tie)
                IN  (file = "part_008" => CredentialUser(resp.header) # "") =>
                        /\ again.isSubscribed = resp.isSubscribed
                        /\ again.transactionKey = resp.transactionKey)

\* r is the response of the webhook handler to a well-formed notification of
\* status st
IsWebhookAnswer(r, st) ==
    /\ r.kind = "webhook"
    /\ r.json
    /\ validateRequestBody(r.body) # JSNull
    /\ r.body.status.s = st

\* C16: a run of the webhook handler that answers a Paid notification with
\* success has added one row, a Paid one, to the ledger and one schedule to
\* the gateway: the schedule is registered under the row's next_schedule_id,
\* is due at the row's next_schedule_at, and carries the billing key, order
\* name and customer id of the charge and the amount recorded in the row,
\* which is the amount of the charge.
C16_PaidRowAndSchedule ==
    [][(IsWebhookAnswer(resp', "Paid") /\ resp'.success /\ resp' # resp) =>
          LET payment == PaymentOf(resp'.body.payment_id.s)
              row     == ledger'[resp'.row]
          IN  /\ resp'.row \in DOMAIN ledger'
              /\ Cardinality({k \in DOMAIN resp'.calls :
                                 resp'.calls[k] = "insert"}) = 1
              /\ row.status = "Paid"
              /\ row.transaction_key = payment.id.s
              /\ Num(row.amount) = parseAmount(payment.amount)
              /\ Cardinality(schedules' \ schedules) = 1
              /\ schedules \subseteq schedules'
              /\ \A s \in schedules' \ schedules :
                    /\ s.paymentId = row.next_schedule_id
                    /\ s.timeToPay = row.next_schedule_at
                    /\ s.billingKey = payment.billingKey
                    /\ s.orderName = payment.orderName
                    /\ s.customerId = payment.customerId
                    /\ s.amount = row.amount
                    /\ \A t \in schedules : t.paymentId # s.paymentId]_vars

\* the handler has answered the Paid notification of p2, whose amount the
\* gateway gives as {total: "5500"}, with success: the row it wrote has the
\* amount 5500 and the gateway holds a schedule of 5500 under the row's
\* next_schedule_id
C16_Witness ==
    /\ IsWebhookAnswer(resp, "Paid") /\ resp.success
    /\ resp.body.payment_id.s = "p2"
    /\ resp.row \in Rows
    /\ ledger[resp.row].amount = 5500
    /\ \E s \in schedules :
          /\ s.paymentId = ledger[resp.row].next_schedule_id
          /\ s.amount = 5500
          /\ s.billingKey = "bk2"

\* the calls of kind a come before the calls of kind b in the sequence
Precedes(calls, a, b) ==
    \A i, j \in DOMAIN calls : (calls[i] = a /\ calls[j] = b) => i < j

\* C17: in a run of the Paid branch the insert into the ledger comes before
\* the registration of the schedule, which is not called when the database
\* refuses the insert; when the run has inserted its row and
\* the registration fails (the charge has no billing key, order name or
\* customer id, or the gateway rejects the call), the handler answers 500 with
\* success = false, the Paid row of this run is in the ledger, and the
\* gateway holds no schedule under the row's next_schedule_id.
C17_RowKeptWhenScheduleFails ==
    [][(IsWebhookAnswer(resp', "Paid") /\ resp' # resp) =>
          LET payment == PaymentOf(resp'.body.payment_id.s)
              called  == {resp'.calls[k] : k \in DOMAIN resp'.calls}
              inserted == "insert" \in called /\ resp'.gw.insert
          IN  /\ Precedes(resp'.calls, "insert", "schedule")
              /\ "schedule" \in called => inserted
              /\ inserted => resp'.row \in DOMAIN ledger'
              /\ (inserted
                    /\ (\/ payment.billingKey = ""
                        \/ payment.orderName = ""
                        \/ payment.customerId = ""
                        \/ ~resp'.gw.schedule)) =>
                    /\ resp'.code = 500
                    /\ ~resp'.success
                    /\ SubSeq(ledger', 1, Len(ledger)) = ledger
                    /\ ledger'[resp'.row].status = "Paid"
                    /\ ledger'[resp'.row].transaction_key = payment.id.s
                    /\ \A s \in schedules' :
                          s.paymentId # ledger'[resp'.row].next_schedule_id]_vars

\* the handler has answered 500 to the Paid notification of p4, a charge
\* without an order name, after inserting the row and without calling the
\* gateway's schedule operation; the row is in the ledger
C17_Witness ==
    /\ IsWebhookAnswer(resp, "Paid")
    /\ resp.body.payment_id.s = "p4"
    /\ resp.code = 500
    /\ resp.calls = <<"fetchPayment", "insert">>
    /\ resp.row \in Rows
    /\ ledger[resp.row].transaction_key = "p4"
    /\ ledger[resp.row].status = "Paid"

\* the schedules of the billing key that the Cancelled branch looks for when
\* it reverses the row: due within a day of the row's next_schedule_at and
\* with the row's next_schedule_id as payment id
MatchingSchedules(held, billingKey, row) ==
    {s \in held :
        /\ s.billingKey = billingKey
        /\ TLeq(addDays(row.next_schedule_at, -1), s.timeToPay)
        /\ TLeq(s.timeToPay, addDays(row.next_schedule_at, 1))
        /\ s.paymentId = row.next_schedule_id}

\* the run in slot r takes a step from the await of `pc`
Resumes(r, pc) ==
    /\ requests[r].kind = "webhook"
    /\ requests[r].pc = pc
    /\ requests'[r] # requests[r]

\* C18: when a run of the Cancelled branch has written its reversal row (the
\* database has accepted the insert) and
\* the charge has no billing key, or the gateway's list call fails, or the
\* list the gateway gives for the window holds no schedule whose payment id
\* is the row's next_schedule_id, the handler answers 500 with success =
\* false, the reversal row is in the ledger, the schedule-cancellation
\* operation is not called and the schedules at the gateway are as they were.
C18_ReversalKeptWhenScheduleMissing ==
    [][\A r \in Slots :
          /\ (Resumes(r, "insert") /\ requests[r].local.params.status = "Cancel"
                /\ requests[r].local.payment.billingKey = ""
                /\ ~(resp'.kind = "webhook" /\ ~resp'.gw.insert)) =>
                 /\ IsWebhookAnswer(resp', "Cancelled")
                 /\ resp'.code = 500
                 /\ ~resp'.success
                 /\ SubSeq(ledger', 1, Len(ledger)) = ledger
                 /\ resp'.row = Len(ledger')
                 /\ ledger'[resp'.row].status = "Cancel"
                 /\ ledger'[resp'.row].transaction_key =
                        requests[r].local.payment.id.s
                 /\ "cancelSchedule" \notin {resp'.calls[k] : k \in DOMAIN resp'.calls}
                 /\ schedules' = schedules
          /\ Resumes(r, "list") =>
                LET c       == requests[r]
                    row     == ledger[c.row]
                    payment == c.local.payment
                IN  /\ row.status = "Cancel"
                    /\ row.transaction_key = payment.id.s
                    /\ ledger' = ledger
                    /\ (\/ MatchingSchedules(schedules, payment.billingKey, row) = {}
                        \/ (resp'.kind = "webhook" /\ ~resp'.gw.list)) =>
                          /\ IsWebhookAnswer(resp', "Cancelled")
                          /\ resp'.body = c.body
                          /\ resp'.row = c.row
                          /\ resp'.code = 500
                          /\ ~resp'.success
                          /\ "cancelSchedule" \notin
                                {resp'.calls[k] : k \in DOMAIN resp'.calls}
                          /\ schedules' = schedules]_vars

\* the handler has answered 500 to a Cancelled notification of p1 with every
\* call to the gateway answered: it wrote the reversal row, listed the
\* schedules and found none under the row's next_schedule_id, because the
\* registration had failed when the charge was recorded
C18_Witness ==
    /\ IsWebhookAnswer(resp, "Cancelled")
    /\ resp.body.payment_id.s = "p1"
    /\ resp.gw = AllOk
    /\ resp.code = 500
    /\ resp.calls = <<"fetchPayment", "fetchLatest", "insert", "list">>
    /\ resp.row \in Rows
    /\ ledger[resp.row].status = "Cancel"
    /\ ledger[resp.read].status = "Paid"
    /\ schedules = {}

\* C19: when the handler answers with success, no call having failed, a
\* Cancelled notification for a key k of which the ledger holds exactly one
\* Paid row, while the schedule the Paid run registered under the row's
\* next_schedule_id is at the gateway, the run has listed the schedules of
\* the window and cancelled the one it matched by payment id, and that
\* schedule is no longer registered at the gateway.
C19_CancelFindsSchedule ==
    [][(IsWebhookAnswer(resp', "Cancelled") /\ resp' # resp
          /\ resp'.success /\ resp'.gw = AllOk) =>
          \A i \in Rows, s \in schedules :
              (/\ ledger[i].transaction_key = resp'.body.payment_id.s
               /\ ledger[i].status = "Paid"
               /\ \A j \in Rows :
                     (ledger[j].transaction_key = resp'.body.payment_id.s
                        /\ ledger[j].status = "Paid") => j = i
               /\ s.paymentId = ledger[i].next_schedule_id) =>
                  /\ TLeq(addDays(ledger[i].next_schedule_at, -1), s.timeToPay)
                  /\ TLeq(s.timeToPay, addDays(ledger[i].next_schedule_at, 1))
                  /\ resp'.calls # << >>
                  /\ resp'.calls[Len(resp'.calls)] = "cancelSchedule"
                  /\ s \notin schedules']_vars

\* C20: however often a notification is delivered, the ledger holds at most
\* one row for a pair of transaction_key and status, and the gateway holds at
\* most one schedule registered for a charge.
C20_AtMostOnceEffective ==
    /\ \A i, j \in Rows :
          (ledger[i].transaction_key = ledger[j].transaction_key
             /\ ledger[i].status = ledger[j].status) => i = j
    /\ \A i, j \in Rows :
          (/\ ledger[i].transaction_key = ledger[j].transaction_key
           /\ ledger[i].status = "Paid" /\ ledger[j].status = "Paid"
           /\ \E s \in schedules : s.paymentId = ledger[i].next_schedule_id
           /\ \E s \in schedules : s.paymentId = ledger[j].next_schedule_id)
              => i = j

\* C21: when the cancellation endpoint has had an answer of the gateway, an
\* answer 409 of type PAYMENT_ALREADY_CANCELLED gets 200 with success = true,
\* and every other answer outside 200..299, a 409 of another type or without
\* a type among them, gets 500 with success = false.
C21_AlreadyCancelledIsSuccess ==
    (resp.kind = "cancel" /\ resp.answer.status # 0) =>
        /\ (resp.answer.status = 409
              /\ resp.answer.type = "PAYMENT_ALREADY_CANCELLED")
             => (resp.code = 200 /\ resp.success)
        /\ (/\ resp.answer.status \notin 200..299
            /\ ~(resp.answer.status = 409
                   /\ resp.answer.type = "PAYMENT_ALREADY_CANCELLED"))
             => (resp.code = 500 /\ ~resp.success)

\* C22: the cancellation endpoint answers 404 only when the ledger holds no
\* row of the caller with the key of the request; when it holds one or
\* several, and the service client and the API secret are configured, the
\* endpoint calls the gateway, so that cancelling an already cancelled charge
\* again is answered 200 when the gateway reports it as already cancelled.
C22_LookupToleratesSeveralRows ==
    IsCancelResponse =>
        LET own == {i \in Rows :
                       /\ ledger[i].user_id = resp.userId
                       /\ ledger[i].transaction_key = resp.body.transactionKey.s}
        IN  /\ resp.code = 404 => own = {}
            /\ (own # {} /\ ServiceRoleConfigured(env) /\ env.apiSecret) =>
                   /\ resp.calls = <<"cancelCharge">>
                   /\ resp.answer = GatewayAnswer(409, "PAYMENT_ALREADY_CANCELLED")
                        => (resp.code = 200 /\ resp.success)

\* C23: whenever a call of fetchPaymentStatus ends by failure, whatever the
\* cause, the hook then holds isSubscribed = false, transactionKey undefined,
\* statusMessage "Free" and an error that is not null; and whenever isLoading
\* is true it is false at some later time.
C23_HookDegradesToFree ==
    /\ [][\A c \in 1..MaxCalls :
            (hook.calls[c].pc # "done" /\ hook'.calls[c] = EndedCall("failure")) =>
                /\ hook'.isSubscribed = FALSE
                /\ hook'.transactionKey = Undef
                /\ hook'.statusMessage = "Free"
                /\ hook'.error # JSNull]_vars
    /\ (hook.isLoading ~> ~hook.isLoading)

\* the first call found the user subscribed, and the second one, started
\* through refetch, has ended by failure on its answer
C23_Witness ==
    /\ hook.calls[1] = EndedCall("success")
    /\ hook.calls[2] = EndedCall("failure")
    /\ hook.error = Str("fetchFailed")
    /\ ~hook.isSubscribed /\ ~hook.isLoading
    /\ \E i \in Rows : IsActiveRow(ledger, i, "u1", now)

\* the Authorization header is absent, or what it carries resolves to no user
Unresolved(header) ==
    \/ ~AnonConfigured(env)
    \/ ~header.present
    \/ \A tu \in TokenUsers : tu[1] # header.token

\* a response of the cancellation endpoint to a well-formed request without
\* a credential that resolves: 401, success = false, the lookup step of the
\* checklist not completed and no call to the gateway
CancelRefused ==
    (resp.kind = "cancel" /\ resp.json /\ validateCancelRequest(resp.body)
       /\ Unresolved(resp.header)) =>
        /\ resp.code = 401 /\ ~resp.success
        /\ ~resp.checklist[4]
        /\ resp.calls = << >> /\ resp.answer = NoAnswer

\* C24: a request to the status endpoint, or a well-formed request to the
\* cancellation endpoint, without a credential that resolves to a user is
\* answered 401 with success = false, and nothing of the ledger or the
\* gateway enters the answer (the database, where a handler asks it, answers).
C24_UnauthorizedIs401 ==
    /\ (resp.kind = "status" /\ Unresolved(resp.header) /\ resp.db) =>
          /\ resp.code = 401 /\ ~resp.success
          /\ ~resp.isSubscribed /\ resp.transactionKey = Undef
          /\ resp.rows = << >>
    /\ CancelRefused

\* the body is an object with a non-empty string payment_id and the status
\* Paid or Cancelled
WellFormed(json, body) ==
    /\ json
    /\ body.type = "object"
    /\ body.payment_id.type = "string" /\ body.payment_id.s # ""
    /\ body.status \in {Str("Paid"), Str("Cancelled")}

\* C25: a run of the webhook handler ends with one response, of status 200,
\* 400 or 500; for a body that is not well formed the response is 400 with
\* success = false and the run makes no call and leaves ledger and schedules
\* alone; success = true comes with 200 only, after every step of the branch
\* of the status: lookup, insert and registration for Paid (the row the run
\* wrote is in the ledger and its schedule at the gateway when the run
\* ends); lookup, latest row, insert, listing and cancellation for Cancelled
\* (the Cancel row the run wrote is in the ledger and the schedule it
\* cancelled is not at the gateway).
C25_WebhookResponses ==
    [][(resp'.kind = "webhook" /\ resp.kind # "webhook") =>
        /\ resp'.code \in {200, 400, 500}
        /\ ~WellFormed(resp'.json, resp'.body) =>
              /\ resp'.code = 400 /\ ~resp'.success
              /\ resp'.calls = << >>
              /\ ledger' = ledger /\ schedules' = schedules
        /\ resp'.success =>
              /\ resp'.code = 200
              /\ WellFormed(resp'.json, resp'.body)
              /\ resp'.body.status.s = "Paid" =>
                    /\ resp'.calls = <<"fetchPayment", "insert", "schedule">>
                    /\ resp'.row \in DOMAIN ledger'
                    /\ ledger'[resp'.row].status = "Paid"
                    /\ ledger'[resp'.row].transaction_key = resp'.body.payment_id.s
                    /\ \E s \in schedules' \ schedules :
                          s.paymentId = ledger'[resp'.row].next_schedule_id
              /\ resp'.body.status.s = "Cancelled" =>
                    /\ resp'.calls = <<"fetchPayment", "fetchLatest", "insert",
                                       "list", "cancelSchedule">>
                    /\ resp'.row \in DOMAIN ledger'
                    /\ ledger'[resp'.row].status = "Cancel"
                    /\ ledger'[resp'.row].transaction_key = resp'.body.payment_id.s
                    /\ \A s \in schedules' :
                          s.paymentId # ledger'[resp'.row].next_schedule_id
        /\ resp'.code = 200 => resp'.success]_vars

\* a notification with a status the handler does not know has been answered
\* 400 while the ledger holds a row and the gateway a schedule
C25_Witness ==
    /\ resp.kind = "webhook"
    /\ resp.json /\ resp.body = WebhookBody(Str("p1"), Str("Ready"))
    /\ resp.code = 400 /\ ~resp.success
    /\ Len(ledger) = 1 /\ Cardinality(schedules) = 1

\* C26: once every handler has returned, when the latest row of a
\* transaction key has status Cancel, no schedule that a Paid run registered
\* for that key (under the next_schedule_id of one of its Paid rows) is
\* registered at the gateway.
C26_CancelledNeverChargedAgain ==
    (resp.kind = "none" /\ NoneRunning) =>
        \A i \in Rows :
            (IsLatestOfKey(ledger, i) /\ ledger[i].status = "Cancel") =>
                \A j \in Rows :
                    (/\ ledger[j].transaction_key = ledger[i].transaction_key
                     /\ ledger[j].status = "Paid") =>
                        \A s \in schedules :
                            s.paymentId # ledger[j].next_schedule_id

\* row j continues row i: a Paid row of the same user whose transaction_key
\* is the next_schedule_id of row i; a row without a user is of no user
Continues(table, i, j) ==
    /\ table[j].status = "Paid"
    /\ table[i].user_id # NullUserId
    /\ table[j].user_id = table[i].user_id
    /\ table[j].transaction_key = table[i].next_schedule_id

\* C27: when the gateway charges every schedule that falls due and delivers
\* the Paid notification of the charge, nothing fails and nothing is
\* cancelled, every Paid row not yet continued, whose schedule falls due
\* within the horizon of the clock, is followed at some later time by a Paid
\* row of the same user whose transaction_key is the earlier row's
\* next_schedule_id, with a schedule registered under the new row's
\* next_schedule_id, unless the ledger has run out of room before.
C27_ChainContinues ==
    \A i \in 1..(MaxRows - 1) :
        (/\ Len(ledger) >= i
         /\ ledger[i].status = "Paid"
         /\ ledger[i].next_schedule_at.day <= StartDay + ChainHorizon
         /\ \A j \in Rows : ~Continues(ledger, i, j))
        ~> \/ Len(ledger) = MaxRows
           \/ /\ Len(ledger) >= i
              /\ \E j \in Rows :
                    /\ Continues(ledger, i, j)
                    /\ \E s \in schedules : s.paymentId = ledger[j].next_schedule_id

\* C28: every schedule at the gateway was registered for a Paid row and
\* carries the custom data of the charge that row records; of two Paid rows
\* of which the second has the first one's next_schedule_id as its
\* transaction_key, both have the same user_id; the custom data of a charge
\* made from the schedule of a Paid row yields that row's user_id; and the
\* Paid notification of such a charge is not answered 500 right after the
\* lookup of the charge, which is where a missing user_id ends the run.
C28_CustomDataPropagated ==
    /\ \A s \in schedules :
          \E i \in Rows :
              /\ ledger[i].status = "Paid"
              /\ ledger[i].next_schedule_id = s.paymentId
              /\ s.customData = PaymentOf(ledger[i].transaction_key).customData
    /\ \A i, j \in Rows :
          (/\ ledger[i].status = "Paid" /\ ledger[j].status = "Paid"
           /\ ledger[j].transaction_key = ledger[i].next_schedule_id)
              => ledger[j].user_id = ledger[i].user_id
    /\ \A p \in payments, i \in Rows :
          (ledger[i].status = "Paid" /\ ledger[i].next_schedule_id = p.key)
              => extractUserId(p.customData) = Str(ledger[i].user_id)
    /\ (/\ IsWebhookAnswer(resp, "Paid")
        /\ HasPayment(resp.body.payment_id.s)
        /\ env.apiSecret /\ ServiceRoleConfigured(env)
        /\ \E i \in Rows : ledger[i].next_schedule_id = resp.body.payment_id.s)
          => ~(resp.code = 500 /\ resp.calls = <<"fetchPayment">>)

\* C29: a run for a Paid notification in which the lookup of the charge is
\* answered with an error, or the charge has an amount that is no number or
\* custom data without a user id, answers 500 with success = false, leaves
\* the ledger as it was and registers no schedule.
C29_PaidFailsBeforeInsert ==
    [][(/\ resp.kind # "webhook"
        /\ resp'.kind = "webhook" /\ WellFormed(resp'.json, resp'.body)
        /\ resp'.body.status.s = "Paid"
        /\ env.apiSecret
        /\ LET pid == resp'.body.payment_id.s
           IN  \/ ~resp'.gw.fetch
               \/ ~HasPayment(pid)
               \/ HasPayment(pid) /\ parseAmount(PaymentOf(pid).amount) = JSNull
               \/ HasPayment(pid) /\ NoUserId(PaymentOf(pid).customData))
       => /\ resp'.code = 500 /\ ~resp'.success
          /\ ledger' = ledger
          /\ schedules' = schedules]_vars

\* C30: a run for a Cancelled notification of a charge whose key has no row
\* in the ledger answers 500 with success = false, leaves the ledger as it
\* was, and calls neither the listing nor the cancellation of schedules.
C30_CancelledWithoutRow ==
    [][(/\ resp.kind # "webhook"
        /\ resp'.kind = "webhook" /\ WellFormed(resp'.json, resp'.body)
        /\ resp'.body.status.s = "Cancelled"
        /\ \A i \in Rows : ledger[i].transaction_key # resp'.body.payment_id.s)
       => /\ resp'.code = 500 /\ ~resp'.success
          /\ ledger' = ledger
          /\ \A k \in DOMAIN resp'.calls :
                resp'.calls[k] \notin {"insert", "list", "cancelSchedule"}
          /\ schedules' = schedules]_vars

\* C31: the answer of the status endpoint to user A at an instant is an
\* answer it gives over A's rows alone, so two ledgers that agree on A's rows
\* give A the same isSubscribed and transactionKey; and the transactionKey
\* returned to A is the key of a row owned by A.
C31_StatusDependsOnOwnRows ==
    (resp.kind = "status" /\ resp.code = 200 /\ Caller(resp) # "") =>
        LET A == Caller(resp)
        IN  /\ \E tie \in TieOrders :
                  LET own == StatusOver(resp.file, resp.header, resp.at,
                                        OwnRows(ledger, A), tie)
                  IN  /\ resp.isSubscribed = own.isSubscribed
                      /\ resp.transactionKey = own.transactionKey
            /\ resp.transactionKey # Undef
                  => \E i \in Rows :
                        /\ ledger[i].user_id = A
                        /\ resp.transactionKey = Str(ledger[i].transaction_key)

\* C32: a run of the cancellation endpoint calls the gateway's cancelCharge
\* at most once, and only for a body that parses as JSON, with a non-blank
\* string transactionKey, from a caller whose credential resolves to a user
\* owning exactly one row of that key when the lookup reads the ledger and
\* the database answers it, on a server that has the gateway secret.  The
\* checks are made in this order: no JSON gives 400, a blank or missing key
\* 400, no user 401, a failed lookup 500, an empty one 404, no secret 500;
\* so a malformed body without credential gets 400, not 401.
C32_CancelChargeGuarded ==
    resp.kind = "cancel" =>
        LET valid    == resp.json /\ validateCancelRequest(resp.body)
            matching == IF valid
                        THEN {i \in 1..resp.read :
                                /\ ledger[i].user_id = resp.userId
                                /\ ledger[i].transaction_key
                                      = resp.body.transactionKey.s}
                        ELSE {}
        IN  /\ Len(resp.calls) <= 1
            /\ resp.calls # << >> =>
                  /\ resp.calls = <<"cancelCharge">>
                  /\ valid /\ resp.userId # ""
                  /\ Cardinality(matching) = 1 /\ resp.db
                  /\ env.apiSecret
            /\ ~resp.json => resp.code = 400
            /\ (resp.json /\ ~valid) => resp.code = 400
            /\ (valid /\ resp.userId = "") => resp.code = 401
            /\ (valid /\ resp.userId # "" /\ Cardinality(matching) # 1)
                  => resp.code \in {500, 404}
            /\ (valid /\ resp.userId # "" /\ ~resp.db) => resp.code = 500
            /\ (valid /\ resp.userId # "" /\ matching = {} /\ resp.db
                  /\ ServiceRoleConfigured(env))
                  => resp.code = 404
            /\ (valid /\ resp.userId # "" /\ Cardinality(matching) = 1
                  /\ ~env.apiSecret) => resp.code = 500

\* C33 as stated: on a server without the gateway API secret a well-formed
\* notification is answered 500 by the webhook endpoint before any call to the
\* gateway or the ledger, every cancellation request is answered 500 without
\* a call to the gateway, and neither run writes the ledger.
C33_NoSecretIs500 ==
    [][~env.apiSecret =>
        /\ (resp'.kind = "webhook" /\ resp.kind # "webhook"
              /\ WellFormed(resp'.json, resp'.body))
              => /\ resp'.code = 500 /\ ~resp'.success
                 /\ resp'.calls = << >>
                 /\ ledger' = ledger /\ schedules' = schedules
        /\ (resp'.kind = "cancel" /\ resp.kind # "cancel")
              => /\ resp'.code = 500 /\ ~resp'.success
                 /\ resp'.calls = << >>
                 /\ ledger' = ledger]_vars

\* the caller of a cancellation request is a user who owns one row of the
\* key the well-formed body names
CancelReachesSecret(r, table) ==
    /\ r.json /\ validateCancelRequest(r.body)
    /\ r.userId # ""
    /\ Cardinality({i \in DOMAIN table :
                      /\ table[i].user_id = r.userId
                      /\ table[i].transaction_key = r.body.transactionKey.s}) = 1

\* C33: on a server without the gateway API secret a well-formed notification
\* is answered 500 by the webhook endpoint before any call to the gateway or
\* the ledger; a cancellation request that passed validation, authorization
\* and the lookup of the caller's row is answered 500 without a call to the
\* gateway, and every other cancellation request is refused with 400, 401,
\* 404 or the 500 of a failed lookup without one; neither run writes the
\* ledger.
C33_NoSecretIs500_PastLookup ==
    [][~env.apiSecret =>
        /\ (resp'.kind = "webhook" /\ resp.kind # "webhook"
              /\ WellFormed(resp'.json, resp'.body))
              => /\ resp'.code = 500 /\ ~resp'.success
                 /\ resp'.calls = << >>
                 /\ ledger' = ledger /\ schedules' = schedules
        /\ (resp'.kind = "cancel" /\ resp.kind # "cancel")
              => /\ CancelReachesSecret(resp', SubSeq(ledger, 1, resp'.read))
                       => resp'.code = 500
                 /\ ~CancelReachesSecret(resp', SubSeq(ledger, 1, resp'.read))
                       => resp'.code \in {400, 401, 404, 500}
                 /\ ~resp'.success
                 /\ resp'.calls = << >>
                 /\ ledger' = ledger]_vars

\* u1, who owns the row of p1, has asked a server without the secret to
\* cancel p1 and has been answered 500 after the lookup, the gateway not
\* having been called
C33_Witness ==
    /\ ~env.apiSecret
    /\ resp.kind = "cancel"
    /\ CancelReachesSecret(resp, SubSeq(ledger, 1, resp.read))
    /\ resp.code = 500 /\ resp.checklist = Checklist(4)
    /\ resp.calls = << >>

\* C34: of every Paid row next_schedule_at is strictly before end_grace_at
\* and not before start_at.  So when the gateway charges each schedule at its
\* instant and the Paid notification is handled then, the row of the renewal
\* starts within the period of the row it continues, before that row's grace
\* period ends: the periods leave no gap from the first start_at on.
C34_NoGapBetweenPeriods ==
    /\ \A i \in Rows :
          ledger[i].status = "Paid"
              => /\ TLt(ledger[i].next_schedule_at, ledger[i].end_grace_at)
                 /\ TLeq(ledger[i].start_at, ledger[i].next_schedule_at)
    /\ \A i \in Rows, j \in Rows :
          (/\ ledger[i].status = "Paid" /\ ledger[j].status = "Paid"
           /\ ledger[j].transaction_key = ledger[i].next_schedule_id
           /\ ledger[j].start_at = ledger[i].next_schedule_at)
              => /\ TLeq(ledger[i].start_at, ledger[j].start_at)
                 /\ TLt(ledger[j].start_at, ledger[i].end_grace_at)

C36_ChargeOnlyForCaller ==
    /\ [][(resp'.kind = "charge" /\ resp.kind # "charge") =>
            LET valid  == resp'.json /\ validatePaymentRequest(resp'.body)
                userId == getUserIdFromSession(resp'.header, resp'.auth)
                called == resp'.calls # << >>
            IN  /\ called => (valid /\ userId # ""
                                /\ resp'.body.customData = Str(userId))
                /\ ~valid => (resp'.code = 400 /\ ~called)
                /\ (valid /\ userId = "") => (resp'.code = 401 /\ ~called)
                /\ (valid /\ userId # "" /\ resp'.body.customData # Str(userId))
                      => (resp'.code = 403 /\ ~called)
                /\ ~called => payments' = payments
                /\ \A p \in payments' \ payments : p.customData = Str(userId)
                /\ ledger' = ledger]_vars
    /\ [](\A i \in Rows :
            \A p \in payments :
                (p.key = ledger[i].transaction_key /\ p.customData.type = "string")
                    => ledger[i].user_id = p.customData.s)

\* C37: a process makes at most one client of each kind.  A call of an
\* accessor whose cache holds a client returns that client, reads no
\* configuration and leaves the module state as it was; a call that finds
\* the cache empty and the configuration of its kind missing throws and
\* leaves the cache empty; a call that finds the cache empty and the
\* configuration present (supplied before or after earlier failed calls)
\* returns a new client, which the cache then holds.
C37_CachedClients ==
    /\ [][(resp.kind = "none" /\ resp'.kind = "client") =>
            LET anon       == resp'.which = "anon"
                before     == IF anon THEN clients.cachedClient
                              ELSE clients.cachedServiceClient
                after      == IF anon THEN clients'.cachedClient
                              ELSE clients'.cachedServiceClient
                configured == IF anon THEN AnonConfigured(env)
                              ELSE ServiceRoleConfigured(env)
            IN  /\ before # NoClient
                      => /\ ~resp'.threw /\ resp'.value = before
                         /\ ~resp'.readEnv
                         /\ clients' = clients
                /\ (before = NoClient /\ ~configured)
                      => /\ resp'.threw /\ resp'.value = NoClient
                         /\ clients' = clients
                /\ (before = NoClient /\ configured)
                      => /\ ~resp'.threw /\ resp'.value # NoClient
                         /\ after = resp'.value]_vars
    /\ [](clients.anonMade <= 1 /\ clients.serviceMade <= 1)

\* getSupabaseServiceRoleClient has returned the client the process made
\* earlier without reading the configuration, which has lost the service
\* role key since, while getSupabaseClient has not yet made a client
C37_Witness ==
    /\ resp.kind = "client" /\ resp.which = "service"
    /\ ~resp.threw /\ resp.value = clients.cachedServiceClient
    /\ ~resp.readEnv
    /\ ~env.serviceRoleKey
    /\ clients.cachedClient = NoClient

====
